---- MODULE Spec2Model ----
(***************************************************************************)
(* Position risk and lifecycle management of the MT5 autotrader.           *)
(*                                                                         *)
(* Two programs of the repository are modelled over one broker:            *)
(*   - bot_progressive_sl.py: the profit loop (monitor_profit_positions)   *)
(*     and the signal loop (monitor_signal_changes), two threads sharing   *)
(*     the dict position_sl_levels               (specification SpecProg)  *)
(*   - bot_enhanced.py: the main cycle (analyze_or_monitor_pair) with      *)
(*     breakeven elevation, trailing and reversal check, and one           *)
(*     monitoring thread per symbol                                        *)
(*                           (specifications SpecRisk, SpecEnh, SpecHeld)  *)
(* and, beside them,                                                       *)
(*   - the start and stop calls of both programs' threads, in any order    *)
(*                                   (specifications SpecSup, SpecSupFair) *)
(*   - calculate_lot_size over a range of equities (specification SpecLot) *)
(*   - the entries of both programs against a broker that counts the       *)
(*     positions of each symbol                  (specification SpecEntry) *)
(*   - is_trading_hours_allowed, adjust_tp_sl_atr, calculate_progressive_sl*)
(*     and the trailing rule, each applied to a range of arguments         *)
(*                                               (specification SpecCalls) *)
(*   - open_trade / open_trade_fast over the pre-calculation cache: the    *)
(*     order built and its attempts              (specification SpecOrder) *)
(*                                                                         *)
(* A write to the audit log (log_trade) succeeds or raises; the gateway    *)
(* and the oracle answer or fail.                                          *)
(*                                                                         *)
(* Prices are integers on the instrument's point grid, every position      *)
(* opens at EntryPrice, and SL = 0 means "no stop loss", as in the code    *)
(* (position.sl if position.sl else 0).  Each loop is cut into steps at    *)
(* its gateway calls and at its accesses to the shared state.  The dict    *)
(* last_signals of bot_progressive_sl.py is written and never read; it is  *)
(* left out.                                                               *)
(***************************************************************************)
EXTENDS Integers, Sequences, FiniteSets, TLC

\* ------------------------------------------------------------------ bounds
MaxTicket == 2      \* tickets the broker hands out in one run
MaxStarts == 2      \* calls of start_monitoring_threads in one run
MaxDeficit == 5000  \* the most negative account equity, in dollars
MaxEquity == 30000  \* largest account equity, in dollars
EquityStep == 250   \* distance between two equities tried
MaxAtr == 20        \* largest ATR tried, in tens of pips
OrderEntry == 265000 \* entry price of the orders sized, in cents
MaxLadderProfit == 85 \* largest profit calculate_progressive_sl is applied to
TrailedSl == 2001000 \* stop of the position trailed, in thousandths of a price unit
MaxTrailGap == 6     \* largest distance of a trailing candidate from the stop, in half pips
MaxSendSeconds == 3 \* longest an order_send and the pause after it take, in seconds
RequoteMove == 5    \* largest move of the quote between two attempts, in cents
MaxBook == 2        \* positions the broker holds per symbol
MaxSteps == 3       \* largest favourable price displacement, in price steps
EntryPrice == 100   \* open price of every position

\* ------------------------------------------------------- program constants
PROFIT_THRESHOLD == 20          \* bot_progressive_sl.py
MIN_CONFIDENCE == 78            \* both programs
SL_BREAKEVEN_THRESHOLD == 50    \* sl_to_breakeven.profit_threshold
BUFFER_PIPS == 2                \* sl_to_breakeven.buffer_pips, either symbol
ACTIVATION_PROFIT == 60         \* trailing_stop.activation_profit
TRAIL_DISTANCE == 10            \* manage_trailing_stops: the 10 of trail_distance_price, either symbol
STEP_SIZE == 1                  \* trailing_stop.step_size
EXECUTION_TIMEOUT == 5          \* execution_optimization.trade_execution_timeout, seconds
RETRY_ATTEMPTS == 2             \* execution_optimization.retry_attempts
FALLBACK_LOT == 1               \* get_precalc_lot_size: "return 0.01", in hundredths of a lot

Symbols == {"XAUUSD", "BTCUSD"}
Types == {"BUY", "SELL"}
Tickets == 1..MaxTicket
\* Profit of one point of price displacement (volume times contract size).
ProfitPerPoint == PROFIT_THRESHOLD \div 4

\* The market quotes in steps of four points, so that one price step is worth
\* one PROFIT_THRESHOLD; stop losses sit anywhere on the point grid.
PriceStep == PROFIT_THRESHOLD \div ProfitPerPoint
MaxOff == MaxSteps * PriceStep

\* Displacements a position can see: one step against it, up to MaxSteps
\* steps in its favour (where its take profit sits).
Offsets == {k * PriceStep : k \in -1..MaxSteps}

\* For bot_enhanced.py the market quotes in steps worth one
\* SL_BREAKEVEN_THRESHOLD.
EnhPriceStep == SL_BREAKEVEN_THRESHOLD \div ProfitPerPoint
EnhMaxOff == MaxSteps * EnhPriceStep
EnhOffsets == {k * EnhPriceStep : k \in -1..MaxSteps}

PricesOf(type, offsets) ==
    IF type = "BUY" THEN {EntryPrice + d : d \in offsets}
    ELSE {EntryPrice - d : d \in offsets}
TakeProfit(type, maxoff) ==
    IF type = "BUY" THEN EntryPrice + maxoff ELSE EntryPrice - maxoff

Abs(x) == IF x < 0 THEN -x ELSE x
Max(a, b) == IF a >= b THEN a ELSE b
MinOf(S) == CHOOSE x \in S : \A y \in S : x <= y

\* dict helpers (Python dict keyed by ticket)
DictSet(d, k, v) == [x \in (DOMAIN d) \cup {k} |-> IF x = k THEN v ELSE d[x]]
DictDel(d, k) == [x \in (DOMAIN d) \ {k} |-> d[x]]
DictGet(d, k, dflt) == IF k \in DOMAIN d THEN d[k] ELSE dflt
EmptyDict == [x \in {} |-> 0]

VARIABLES
    \* ---- broker (Execution Gateway)
    pos,                 \* ticket -> [st, sym, type, price, sl]
    \* ---- bot_progressive_sl.py
    position_sl_levels,  \* dict ticket -> last protected profit level
    p_pc,                \* profit loop: position in monitor_profit_positions
    p_positions,         \* profit loop: snapshot, the tickets positions_get listed
    p_rest,              \* profit loop: positions still to visit, ticket -> [type, profit, sl]
    p_cur,               \* profit loop: [ticket, level, new_sl] being handled
    p_closed,            \* profit loop: closed_tickets still to delete
    p_err,               \* profit loop: what the except clause caught this tick
    s_pc,                \* signal loop: position in monitor_signal_changes
    s_rest,              \* signal loop: positions still to visit, ticket -> type
    s_cur,               \* signal loop: [ticket, oracle, action, confidence] being handled
    s_err,               \* signal loop: what close_position's except caught
    \* ---- bot_enhanced.py
    positions_at_breakeven,  \* set of tickets eligible for trailing
    last_analysis_signals,   \* symbol -> latest stored signal [action, confidence]
    monitoring_threads,      \* symbol -> "none" | "alive" | "dead"
    stop_monitoring,         \* dict symbol -> stop flag
    mon,                     \* monitor thread of a symbol: [pc, ticket, type, action, confidence]
    m_pc,                    \* main cycle: position in analyze_or_monitor_pair
    m_sym,                   \* main cycle: the pair being processed
    m_position,              \* main cycle: positions[0] of the pair, [ticket, type]
    m_rest,                  \* main cycle: positions still to visit, ticket -> [type, profit, sl]
    m_cur,                   \* main cycle: request being sent, [ticket, new_sl, confidence]
    m_seen,                  \* main cycle: open tickets a positions_get listed with profit >= activation_profit
    \* ---- thread supervision
    caller,                  \* bot_enhanced.py: the start/stop call in progress, [op, sym, pc]
    prog_stop_monitoring,    \* bot_progressive_sl.py: the global stop_monitoring
    prog_threads,            \* bot_progressive_sl.py: threads started, [target, st, err, asked]
    \* ---- lot sizing
    account_equity,          \* calculate_lot_size: the equity passed in, in dollars
    volume,                  \* calculate_lot_size: what the call gave back
    \* ---- order execution
    precalc_cache,           \* bot_enhanced.py: [account_info, position_sizes]
    fast,                    \* open_trade_fast: the call in progress or the last one
    \* ---- entries
    book,                    \* broker: symbol -> number of open positions
    blocked_pairs,           \* cycle_once: the symbols news-blocked in this cycle
    hours_allowed,           \* what is_trading_hours_allowed reports at this hour
    e_pc,                    \* entry loop: "idle", "cycle", the pair in turn, or "main"
    e_last,                  \* entry loop: [sym, listed, branch] of the last pair handled
    \* ---- functions applied on their own
    call                     \* [fn, ...]: the arguments and the result of the last call

profitVars == <<p_pc, p_positions, p_rest, p_cur, p_closed, p_err>>
signalVars == <<s_pc, s_rest, s_cur, s_err>>
progVars == <<position_sl_levels, p_pc, p_positions, p_rest, p_cur, p_closed,
              p_err, s_pc, s_rest, s_cur, s_err>>
monVars == <<monitoring_threads, stop_monitoring, mon>>
mainVars == <<m_pc, m_sym, m_position, m_rest, m_cur, m_seen>>
enhVars == <<positions_at_breakeven, last_analysis_signals, monitoring_threads,
             stop_monitoring, mon, m_pc, m_sym, m_position, m_rest, m_cur, m_seen>>
supVars == <<caller, prog_stop_monitoring, prog_threads>>
lotVars == <<account_equity, volume, precalc_cache, fast>>
entryVars == <<book, blocked_pairs, hours_allowed, e_pc, e_last>>
auxVars == <<caller, prog_stop_monitoring, prog_threads, account_equity, volume,
             precalc_cache, fast, book, blocked_pairs, hours_allowed, e_pc, e_last, call>>
vars == <<pos, position_sl_levels, p_pc, p_positions, p_rest, p_cur, p_closed,
          p_err, s_pc, s_rest, s_cur, s_err,
          positions_at_breakeven, last_analysis_signals, monitoring_threads,
          stop_monitoring, mon, m_pc, m_sym, m_position, m_rest, m_cur, m_seen,
          caller, prog_stop_monitoring, prog_threads, account_equity, volume,
          precalc_cache, fast, book, blocked_pairs, hours_allowed, e_pc, e_last, call>>

\* ------------------------------------------------------------------ broker
NoPos == [st |-> "none", sym |-> "XAUUSD", type |-> "BUY", price |-> 0, sl |-> 0]
ClosedPos == [NoPos EXCEPT !.st = "closed"]

IsOpen(t) == pos[t].st = "open"
OpenTickets == {t \in Tickets : IsOpen(t)}

\* position.profit as the broker reports it
Profit(type, price) ==
    IF type = "BUY" THEN (price - EntryPrice) * ProfitPerPoint
    ELSE (EntryPrice - price) * ProfitPerPoint

\* The instruments are traded in turn: odd tickets are gold, even ones bitcoin.
SymbolOf(t) == IF t % 2 = 1 THEN "XAUUSD" ELSE "BTCUSD"

\* The stop loss the opening signal carries: none, or one point on the losing side.
InitialSL(type) == {0, IF type = "BUY" THEN EntryPrice - 1 ELSE EntryPrice + 1}

\* A new position is opened under the next ticket.  One position is open at
\* a time: the next one opens once the previous one is closed.
OpenPosition(t, sym, type, sl) ==
    /\ pos[t].st = "none"
    /\ \A u \in Tickets : u < t => pos[u].st = "closed"
    /\ pos' = [pos EXCEPT ![t] = [st |-> "open", sym |-> sym, type |-> type,
                                  price |-> EntryPrice, sl |-> sl]]

\* The market moves the price of an open position's symbol.
PriceMove(t, p, step, offsets) ==
    /\ IsOpen(t)
    /\ p \in PricesOf(pos[t].type, offsets)
    /\ Abs(p - pos[t].price) = step
    /\ pos' = [pos EXCEPT ![t].price = p]

SlHit(t) ==
    /\ pos[t].sl # 0
    /\ IF pos[t].type = "BUY" THEN pos[t].price <= pos[t].sl
       ELSE pos[t].price >= pos[t].sl

TpHit(t, maxoff) == pos[t].price = TakeProfit(pos[t].type, maxoff)

\* Broker-side fill of the stop loss or the take profit closes the position.
BrokerFill(t, maxoff) ==
    /\ IsOpen(t)
    /\ SlHit(t) \/ TpHit(t, maxoff)
    /\ pos' = [pos EXCEPT ![t] = ClosedPos]

\* A tick read of a symbol: the live price of the open position, any price
\* once the position is gone (the market keeps moving unobserved).
TickPrices(t, type, offsets) ==
    IF IsOpen(t) THEN {pos[t].price} ELSE PricesOf(type, offsets)

\* mt5.order_send on a position: refused when the position is no longer open,
\* otherwise accepted or rejected by the gateway (ok).
Accepted(t, ok) == IsOpen(t) /\ ok

\* The two kinds of request the programs send for a position:
\* request = {"action": mt5.TRADE_ACTION_SLTP, "position": ticket, "sl": new_sl, ...}
sltp_request(loop, ticket, new_sl) ==
    [loop |-> loop, action |-> "TRADE_ACTION_SLTP", position |-> ticket, sl |-> new_sl]

\* Variant of the close request that is sent as a stop modification.
close_as_sltp(loop, ticket) == sltp_request(loop, ticket, 0)

\* close_request = {"action": mt5.TRADE_ACTION_DEAL, "position": ticket, ...}
close_request(loop, ticket) ==
    [loop |-> loop, action |-> "TRADE_ACTION_DEAL", position |-> ticket, sl |-> 0]

\* --------------------------------------------------- bot_progressive_sl.py

\* int(current_profit // PROFIT_THRESHOLD) * PROFIT_THRESHOLD
ProfitLevel(profit) == (profit \div PROFIT_THRESHOLD) * PROFIT_THRESHOLD

\* calculate_progressive_sl(position, current_profit): 0 means "no SL".
\* tick is the live tick price, 0 when symbol_info / symbol_info_tick fail.
\* points_to_lock = locked_profit / (current_profit / price_movement), taken
\* on the point grid.
calculate_progressive_sl(type, current_profit, tick) ==
    LET profit_level == ProfitLevel(current_profit)
        locked_profit == Max(0, (profit_level - PROFIT_THRESHOLD) \div 2)
        price_movement == Abs(tick - EntryPrice)
        points_to_lock == IF current_profit > 0
                          THEN (locked_profit * price_movement) \div current_profit
                          ELSE 0
    IN  IF profit_level < PROFIT_THRESHOLD THEN 0
        ELSE IF tick = 0 THEN 0
        ELSE IF price_movement = 0 THEN 0
        ELSE IF profit_level = PROFIT_THRESHOLD THEN EntryPrice
        ELSE IF type = "BUY" THEN EntryPrice + points_to_lock
        ELSE EntryPrice - points_to_lock

\* Variant of should_modify that also lets through a stop equal to the current one.
should_modify_or_equal(type, new_sl, current_sl) ==
    IF type = "BUY" THEN new_sl >= current_sl
    ELSE (current_sl = 0) \/ (new_sl <= current_sl)

\* should_modify of monitor_profit_positions
should_modify(type, new_sl, current_sl) ==
    IF type = "BUY" THEN new_sl > current_sl
    ELSE (current_sl = 0) \/ (new_sl < current_sl)

\* Variant of the edge trigger that also fires on the level already recorded.
LevelReached(profit_level, last_level) == profit_level >= last_level

\* The edge trigger: a profit level above the last one recorded for the ticket.
NewLevelReached(profit_level, last_level) == profit_level > last_level

\* Variant of the reset test that fires on any profit under the first milestone.
BelowFirstLevel(current_profit) == current_profit < PROFIT_THRESHOLD

\* "Reset tracking if position turned negative": current_profit < 0
TurnedNegative(current_profit) == current_profit < 0

NoCur == [ticket |-> 0, level |-> 0, new_sl |-> 0]

ProfitAdvance(t) ==
    /\ p_rest' = DictDel(p_rest, t)
    /\ p_pc' = "visit"
    /\ p_cur' = NoCur

\* while not stop_monitoring: positions = mt5.positions_get(); if positions: ...
ProfitSnapshot ==
    /\ p_pc = "sleep"
    /\ p_positions' = OpenTickets
    /\ p_rest' = [t \in OpenTickets |->
                    [type |-> pos[t].type,
                     profit |-> Profit(pos[t].type, pos[t].price),
                     sl |-> pos[t].sl]]
    /\ p_pc' = IF OpenTickets = {} THEN "sleep" ELSE "visit"
    /\ p_err' = "none"
    /\ p_cur' = NoCur
    /\ p_closed' = {}
    /\ UNCHANGED <<pos, position_sl_levels, signalVars, enhVars, auxVars>>

\* One pass of the for loop body up to the gateway call or the del.
ProfitVisit(tick) ==
    /\ p_pc = "visit"
    /\ DOMAIN p_rest # {}
    /\ LET t == MinOf(DOMAIN p_rest)
           type == p_rest[t].type
           current_profit == p_rest[t].profit
           current_sl == p_rest[t].sl
           profit_level == ProfitLevel(current_profit)
           last_level == DictGet(position_sl_levels, t, 0)
           new_sl == calculate_progressive_sl(type, current_profit, tick)
       IN  /\ tick \in TickPrices(t, type, Offsets) \cup {0}
           /\ IF current_profit >= PROFIT_THRESHOLD
              THEN IF /\ NewLevelReached(profit_level, last_level)
                      /\ should_modify(type, new_sl, current_sl)
                      /\ new_sl # 0
                   THEN /\ p_pc' = "modify"
                        /\ p_cur' = [ticket |-> t, level |-> profit_level, new_sl |-> new_sl]
                        /\ UNCHANGED p_rest
                   ELSE ProfitAdvance(t)
              ELSE IF t \in DOMAIN position_sl_levels /\ TurnedNegative(current_profit)
                   THEN /\ p_pc' = "del_neg"
                        /\ p_cur' = [ticket |-> t, level |-> 0, new_sl |-> 0]
                        /\ UNCHANGED p_rest
                   ELSE ProfitAdvance(t)
    /\ UNCHANGED <<pos, position_sl_levels, p_positions, p_closed, p_err, signalVars, enhVars, auxVars>>

\* modify_position_sl(ticket, new_sl, tp, reason): the stop-modification request.
ProfitModify(ok) ==
    /\ p_pc = "modify"
    /\ IF Accepted(p_cur.ticket, ok)
       THEN /\ pos' = [pos EXCEPT ![p_cur.ticket].sl = p_cur.new_sl]
            /\ p_pc' = "record"
            /\ UNCHANGED <<p_rest, p_cur>>
       ELSE /\ ProfitAdvance(p_cur.ticket)
            /\ UNCHANGED pos
    /\ UNCHANGED <<position_sl_levels, p_positions, p_closed, p_err, signalVars, enhVars, auxVars>>

\* position_sl_levels[ticket] = profit_level, then log_trade(...): a log that
\* fails raises out of the for loop into the loop's except clause, and the
\* rest of the tick is skipped.
ProfitRecord(logged) ==
    /\ p_pc = "record"
    /\ position_sl_levels' = DictSet(position_sl_levels, p_cur.ticket, p_cur.level)
    /\ IF logged
       THEN /\ ProfitAdvance(p_cur.ticket)
            /\ UNCHANGED p_err
       ELSE /\ p_err' = "LogError"
            /\ p_pc' = "sleep"
            /\ p_cur' = NoCur
            /\ UNCHANGED p_rest
    /\ UNCHANGED <<pos, p_positions, p_closed, signalVars, enhVars, auxVars>>

\* del position_sl_levels[ticket] of the "turned negative" branch; a missing
\* key raises KeyError, which the loop's except clause catches.
ProfitDelNegative ==
    /\ p_pc = "del_neg"
    /\ IF p_cur.ticket \in DOMAIN position_sl_levels
       THEN /\ position_sl_levels' = DictDel(position_sl_levels, p_cur.ticket)
            /\ ProfitAdvance(p_cur.ticket)
            /\ UNCHANGED p_err
       ELSE /\ p_err' = "KeyError"
            /\ p_pc' = "sleep"
            /\ p_cur' = NoCur
            /\ UNCHANGED <<position_sl_levels, p_rest>>
    /\ UNCHANGED <<pos, p_positions, p_closed, signalVars, enhVars, auxVars>>

\* closed_tickets = [t for t in position_sl_levels.keys() if t not in open_tickets]
ProfitListClosed ==
    /\ p_pc = "visit"
    /\ DOMAIN p_rest = {}
    /\ LET closed_tickets == {t \in DOMAIN position_sl_levels : t \notin p_positions}
       IN  /\ p_closed' = closed_tickets
           /\ p_pc' = IF closed_tickets = {} THEN "sleep" ELSE "cleanup"
    /\ UNCHANGED <<pos, position_sl_levels, p_positions, p_rest, p_cur, p_err, signalVars, enhVars, auxVars>>

\* for ticket in closed_tickets: del position_sl_levels[ticket]
ProfitDelClosed ==
    /\ p_pc = "cleanup"
    /\ LET t == MinOf(p_closed)
       IN  IF t \in DOMAIN position_sl_levels
           THEN /\ position_sl_levels' = DictDel(position_sl_levels, t)
                /\ p_closed' = p_closed \ {t}
                /\ p_pc' = IF p_closed \ {t} = {} THEN "sleep" ELSE "cleanup"
                /\ UNCHANGED p_err
           ELSE /\ p_err' = "KeyError"
                /\ p_closed' = {}
                /\ p_pc' = "sleep"
                /\ UNCHANGED position_sl_levels
    /\ UNCHANGED <<pos, p_positions, p_rest, p_cur, signalVars, enhVars, auxVars>>

\* ---------------------------------------------------------- signal loop

\* What the signal oracle (LLM call and its parsing) can produce:
\*   error     - indicators, account, news block or the HTTP request fail
\*   malformed - the answer cannot be parsed
\*   ok        - a parsed answer with an action and a confidence
OracleResponses ==
    {[kind |-> "error", action |-> "absent", confidence |-> 0],
     [kind |-> "malformed", action |-> "absent", confidence |-> 0],
     [kind |-> "ok", action |-> "NO_TRADE", confidence |-> MIN_CONFIDENCE]}
    \cup [kind : {"ok"}, action : {"BUY", "SELL"}, confidence : {60, MIN_CONFIDENCE}]

\* Variant of get_ai_signal that lets a failed call through as a full-confidence
\* SELL instead of degrading it.
get_ai_signal_unguarded(resp) ==
    [action |-> IF resp.kind = "ok" THEN resp.action ELSE "SELL",
     confidence |-> IF resp.kind = "ok" THEN resp.confidence ELSE 100]

\* get_ai_signal(symbol): every failure is caught and degraded to NO_TRADE / 0;
\* a parsed answer keeps its fields.
get_ai_signal(resp) ==
    IF resp.kind # "ok"
    THEN [action |-> "NO_TRADE", confidence |-> 0]
    ELSE [action |-> resp.action, confidence |-> resp.confidence]

\* The reversal test of monitor_signal_changes
IsReversal(current_type, new_action, confidence) ==
    /\ new_action \in {"BUY", "SELL"}
    /\ confidence >= MIN_CONFIDENCE
    /\ current_type # new_action

NoSignal == [ticket |-> 0, type |-> "BUY", oracle |-> "none",
             action |-> "NO_TRADE", confidence |-> 0]

SignalAdvance(t) ==
    /\ s_rest' = DictDel(s_rest, t)
    /\ s_pc' = IF DOMAIN s_rest \ {t} = {} THEN "sleep" ELSE "visit"
    /\ s_cur' = NoSignal

\* while not stop_monitoring: positions = mt5.positions_get(); if positions: ...
SignalSnapshot ==
    /\ s_pc = "sleep"
    /\ s_rest' = [t \in OpenTickets |-> pos[t].type]
    /\ s_pc' = IF OpenTickets = {} THEN "sleep" ELSE "visit"
    /\ s_err' = "none"
    /\ s_cur' = NoSignal
    /\ UNCHANGED <<pos, position_sl_levels, profitVars, enhVars, auxVars>>

\* current_signal = get_ai_signal(symbol)
SignalFetch(resp) ==
    /\ s_pc = "visit"
    /\ LET t == MinOf(DOMAIN s_rest)
           current_signal == get_ai_signal(resp)
       IN  s_cur' = [ticket |-> t, type |-> s_rest[t], oracle |-> resp.kind,
                     action |-> current_signal.action,
                     confidence |-> current_signal.confidence]
    /\ s_pc' = "decide"
    /\ UNCHANGED <<pos, position_sl_levels, profitVars, s_rest, s_err, enhVars, auxVars>>

\* Variant of the decision that, on a signal agreeing with the position,
\* pulls the position's stop to the entry price.
SignalDecideAdjusting ==
    /\ s_pc = "decide"
    /\ IF IsReversal(s_cur.type, s_cur.action, s_cur.confidence)
       THEN s_pc' = "close" /\ UNCHANGED <<s_rest, s_cur, pos>>
       ELSE /\ SignalAdvance(s_cur.ticket)
            /\ pos' = IF IsOpen(s_cur.ticket) /\ s_cur.action = s_cur.type
                      THEN [pos EXCEPT ![s_cur.ticket].sl = EntryPrice]
                      ELSE pos
    /\ UNCHANGED <<position_sl_levels, profitVars, s_err, enhVars, auxVars>>

\* if new_action in ["BUY", "SELL"] and confidence >= MIN_CONFIDENCE:
\*     if current_type != new_action: close_position(position)
SignalDecide ==
    /\ s_pc = "decide"
    /\ IF IsReversal(s_cur.type, s_cur.action, s_cur.confidence)
       THEN s_pc' = "close" /\ UNCHANGED <<s_rest, s_cur>>
       ELSE SignalAdvance(s_cur.ticket)
    /\ UNCHANGED <<pos, position_sl_levels, profitVars, s_err, enhVars, auxVars>>

\* close_position(position): result = mt5.order_send(close_request)
SignalClose(ok) ==
    /\ s_pc = "close"
    /\ IF Accepted(s_cur.ticket, ok)
       THEN /\ pos' = [pos EXCEPT ![s_cur.ticket] = ClosedPos]
            /\ s_pc' = "close_check"
            /\ UNCHANGED <<s_rest, s_cur>>
       ELSE /\ SignalAdvance(s_cur.ticket)
            /\ UNCHANGED pos
    /\ UNCHANGED <<position_sl_levels, profitVars, s_err, enhVars, auxVars>>

\* close_position: if ticket in position_sl_levels: ... else straight to
\* log_trade(...) and return True; a log that fails is caught by
\* close_position's except clause (it returns False).
SignalCloseCheck(logged) ==
    /\ s_pc = "close_check"
    /\ IF s_cur.ticket \in DOMAIN position_sl_levels
       THEN s_pc' = "close_del" /\ UNCHANGED <<s_rest, s_cur, s_err>>
       ELSE /\ SignalAdvance(s_cur.ticket)
            /\ s_err' = IF logged THEN s_err ELSE "LogError"
    /\ UNCHANGED <<pos, position_sl_levels, profitVars, enhVars, auxVars>>

\* close_position: del position_sl_levels[ticket], then log_trade(...) and
\* return True; a missing key raises KeyError and a log that fails raises too,
\* both caught by close_position's except clause (it returns False).
SignalCloseDel(logged) ==
    /\ s_pc = "close_del"
    /\ IF s_cur.ticket \in DOMAIN position_sl_levels
       THEN /\ position_sl_levels' = DictDel(position_sl_levels, s_cur.ticket)
            /\ s_err' = IF logged THEN s_err ELSE "LogError"
       ELSE /\ s_err' = "KeyError"
            /\ UNCHANGED position_sl_levels
    /\ SignalAdvance(s_cur.ticket)
    /\ UNCHANGED <<pos, profitVars, enhVars, auxVars>>

\* ------------------------------------------------------------- environment
EnvOpen ==
    /\ \E t \in Tickets, type \in Types :
          \E sl \in InitialSL(type) : OpenPosition(t, SymbolOf(t), type, sl)
    /\ UNCHANGED <<progVars, enhVars, auxVars>>

EnvPrice ==
    /\ \E t \in OpenTickets : \E p \in PricesOf(pos[t].type, Offsets) :
          PriceMove(t, p, PriceStep, Offsets)
    /\ UNCHANGED <<progVars, enhVars, auxVars>>

EnvFill ==
    /\ \E t \in Tickets : BrokerFill(t, MaxOff)
    /\ UNCHANGED <<progVars, enhVars, auxVars>>


\* --------------------------------------------------------- bot_enhanced.py

\* deepseek_analyze(symbol, tech_data, account) where it returns: an
\* unparsable answer gives the safe response, an error is raised to the caller
deepseek_analyze(resp) ==
    IF resp.kind = "malformed"
    THEN [action |-> "NO_TRADE", confidence |-> 0]
    ELSE [action |-> resp.action, confidence |-> resp.confidence]

NoStoredSignal == [action |-> "none", confidence |-> 0]
NoPosition == [ticket |-> 0, type |-> "BUY"]
NoRequest == [ticket |-> 0, new_sl |-> 0]
MonIdle == [pc |-> "loop", ticket |-> 0, type |-> "BUY", action |-> "none", confidence |-> 0]

\* positions_get(symbol=symbol)
PositionsOf(sym) == {t \in OpenTickets : pos[t].sym = sym}

\* positions_get() as the risk managers read it
Snapshot ==
    [t \in OpenTickets |-> [type |-> pos[t].type,
                            profit |-> Profit(pos[t].type, pos[t].price),
                            sl |-> pos[t].sl]]

\* The open positions that a positions_get has listed with a position.profit
\* of activation_profit or more: those seen so before, and those among the
\* ones listed now.
SeenAtActivation(listed) ==
    (m_seen \cap OpenTickets)
        \cup {t \in listed : Profit(pos[t].type, pos[t].price) >= ACTIVATION_PROFIT}

\* Variant of the elevation target without the buffer: the entry itself.
breakeven_sl_unbuffered(type) == EntryPrice

\* manage_position_sl_elevation: new_sl = entry_price +/- buffer
breakeven_sl(type) ==
    IF type = "BUY" THEN EntryPrice + BUFFER_PIPS ELSE EntryPrice - BUFFER_PIPS

\* Variant of the elevation test that compares with the new SL, not the entry.
not_beyond_breakeven(type, current_sl) ==
    IF type = "BUY" THEN current_sl = 0 \/ current_sl <= EntryPrice + BUFFER_PIPS
    ELSE current_sl = 0 \/ current_sl >= EntryPrice - BUFFER_PIPS

\* manage_position_sl_elevation: the SL is absent or still on the losing side
needs_elevation(type, current_sl) ==
    IF type = "BUY" THEN current_sl = 0 \/ current_sl < EntryPrice
    ELSE current_sl = 0 \/ current_sl > EntryPrice

\* RISK_MANAGEMENT_CONFIG['trailing_stop']['trail_distance_points'], in pips
trail_distance_points(symbol) ==
    IF symbol = "XAUUSD" THEN 10 ELSE 10

\* Variant of the candidate that trails at no distance: the price itself.
potential_at_price(type, current_price) == current_price

\* manage_trailing_stops: potential_new_sl
potential_new_sl(type, current_price) ==
    IF type = "BUY" THEN current_price - TRAIL_DISTANCE
    ELSE current_price + TRAIL_DISTANCE

\* Variant of the trailing rule without the ratchet: the SL follows the price.
trailing_unratcheted(type, current_price, current_sl) ==
    potential_new_sl(type, current_price)

\* manage_trailing_stops: new_sl, 0 standing for None
trailing_new_sl(type, current_price, current_sl) ==
    LET potential == potential_new_sl(type, current_price)
    IN  IF type = "BUY"
        THEN IF potential > current_sl /\ (potential - current_sl) >= STEP_SIZE
             THEN potential ELSE 0
        ELSE IF potential < current_sl /\ (current_sl - potential) >= STEP_SIZE
             THEN potential ELSE 0

\* new_action in ["BUY", "SELL"] and new_action != current_type
direction_changed(current_type, new_action) ==
    new_action \in {"BUY", "SELL"} /\ new_action # current_type

\* analyze_or_monitor_pair: fresh_signal['confidence'] >= MIN_CONFIDENCE
confident(confidence) == confidence >= MIN_CONFIDENCE

\* start_continuous_monitoring(symbol): no second thread while one is alive
start_continuous_monitoring(sym) ==
    IF monitoring_threads[sym] = "alive"
    THEN UNCHANGED monVars
    ELSE /\ stop_monitoring' = DictSet(stop_monitoring, sym, FALSE)
         /\ monitoring_threads' = [monitoring_threads EXCEPT ![sym] = "alive"]
         /\ mon' = [mon EXCEPT ![sym] = MonIdle]

\* stop_continuous_monitoring(symbol): raise the flag; the join times out
stop_continuous_monitoring(sym) ==
    /\ stop_monitoring' = IF sym \in DOMAIN stop_monitoring
                          THEN DictSet(stop_monitoring, sym, TRUE)
                          ELSE stop_monitoring
    /\ UNCHANGED <<monitoring_threads, mon>>

\* cycle_once processes XAUUSD, then BTCUSD, and the next cycle starts over.
MainNextPair ==
    /\ m_sym' = IF m_sym = "XAUUSD" THEN "BTCUSD" ELSE "XAUUSD"
    /\ m_pc' = "pair"
    /\ m_position' = NoPosition
    /\ m_rest' = EmptyDict
    /\ m_cur' = NoRequest

\* An exception that leaves cycle_once: the main loop prints it, sleeps and
\* starts the next cycle.
MainAbortCycle ==
    /\ m_sym' = "XAUUSD"
    /\ m_pc' = "pair"
    /\ m_position' = NoPosition
    /\ m_rest' = EmptyDict
    /\ m_cur' = NoRequest

\* analyze_or_monitor_pair(symbol): positions = mt5.positions_get(symbol=symbol)
MainPair ==
    /\ m_pc = "pair"
    /\ IF PositionsOf(m_sym) # {}
       THEN LET t == MinOf(PositionsOf(m_sym))
            IN  /\ m_position' = [ticket |-> t, type |-> pos[t].type]
                /\ m_pc' = "elevate"
       ELSE /\ m_position' = NoPosition
            /\ m_pc' = "analyze"
    /\ m_seen' = SeenAtActivation(PositionsOf(m_sym))
    /\ UNCHANGED <<pos, progVars, auxVars, positions_at_breakeven, last_analysis_signals,
                   monVars, m_sym, m_rest, m_cur>>

ElevAdvance(t) ==
    /\ m_rest' = DictDel(m_rest, t)
    /\ m_pc' = IF DOMAIN m_rest \ {t} = {} THEN "trail" ELSE "elev_visit"
    /\ m_cur' = NoRequest

\* manage_position_sl_elevation(): positions = mt5.positions_get()
MainElevSnapshot ==
    /\ m_pc = "elevate"
    /\ m_rest' = Snapshot
    /\ m_pc' = IF OpenTickets = {} THEN "trail" ELSE "elev_visit"
    /\ m_seen' = SeenAtActivation(OpenTickets)
    /\ UNCHANGED <<pos, progVars, auxVars, positions_at_breakeven, last_analysis_signals,
                   monVars, m_sym, m_position, m_cur>>

\* manage_position_sl_elevation(): loop body up to the gateway call;
\* info is whether mt5.symbol_info answered.
MainElevVisit(info) ==
    /\ m_pc = "elev_visit"
    /\ LET t == MinOf(DOMAIN m_rest)
           position == m_rest[t]
       IN  IF /\ position.profit >= SL_BREAKEVEN_THRESHOLD
              /\ info
              /\ needs_elevation(position.type, position.sl)
           THEN /\ m_cur' = [ticket |-> t, new_sl |-> breakeven_sl(position.type)]
                /\ m_pc' = "elev_modify"
                /\ UNCHANGED m_rest
           ELSE ElevAdvance(t)
    /\ UNCHANGED <<pos, progVars, auxVars, m_seen, positions_at_breakeven, last_analysis_signals,
                   monVars, m_sym, m_position>>

\* if modify_position_sl(ticket, new_sl, tp): positions_at_breakeven.add(ticket)
\* modify_position_sl logs an accepted modification before it returns True; a
\* log that fails raises through manage_position_sl_elevation and
\* analyze_or_monitor_pair out of cycle_once.
MainElevModify(ok, logged) ==
    /\ m_pc = "elev_modify"
    /\ IF Accepted(m_cur.ticket, ok)
       THEN /\ pos' = [pos EXCEPT ![m_cur.ticket].sl = m_cur.new_sl]
            /\ IF logged
               THEN /\ positions_at_breakeven' = positions_at_breakeven \cup {m_cur.ticket}
                    /\ ElevAdvance(m_cur.ticket)
                    /\ UNCHANGED <<m_sym, m_position>>
               ELSE /\ UNCHANGED positions_at_breakeven
                    /\ MainAbortCycle
       ELSE /\ UNCHANGED <<pos, positions_at_breakeven, m_sym, m_position>>
            /\ ElevAdvance(m_cur.ticket)
    /\ UNCHANGED <<progVars, auxVars, m_seen, last_analysis_signals, monVars>>

TrailAdvance(t) ==
    /\ m_rest' = DictDel(m_rest, t)
    /\ m_pc' = IF DOMAIN m_rest \ {t} = {} THEN "reversal" ELSE "trail_visit"
    /\ m_cur' = NoRequest

\* manage_trailing_stops(): positions = mt5.positions_get();
\* if not positions: positions_at_breakeven.clear()
\* listed is whether positions_get answered; it returns None when it fails,
\* which "not positions" takes for an account without positions.
MainTrailSnapshot(listed) ==
    /\ m_pc = "trail"
    /\ IF ~listed \/ OpenTickets = {}
       THEN /\ positions_at_breakeven' = {}
            /\ m_rest' = EmptyDict
            /\ m_pc' = "reversal"
       ELSE /\ m_rest' = Snapshot
            /\ m_pc' = "trail_visit"
            /\ UNCHANGED positions_at_breakeven
    /\ m_seen' = SeenAtActivation(IF listed THEN OpenTickets ELSE {})
    /\ UNCHANGED <<pos, progVars, auxVars, last_analysis_signals, monVars, m_sym,
                   m_position, m_cur>>

\* manage_trailing_stops(): loop body up to the gateway call; tick is the
\* live price, 0 when mt5.symbol_info_tick fails.
MainTrailVisit(tick) ==
    /\ m_pc = "trail_visit"
    /\ LET t == MinOf(DOMAIN m_rest)
           position == m_rest[t]
           armed == IF position.profit >= ACTIVATION_PROFIT
                    THEN positions_at_breakeven \cup {t}
                    ELSE positions_at_breakeven
           new_sl == trailing_new_sl(position.type, tick, position.sl)
       IN  /\ tick \in TickPrices(t, position.type, EnhOffsets) \cup {0}
           /\ positions_at_breakeven' = armed
           /\ IF t \in armed /\ tick # 0 /\ new_sl # 0
              THEN /\ m_cur' = [ticket |-> t, new_sl |-> new_sl]
                   /\ m_pc' = "trail_modify"
                   /\ UNCHANGED m_rest
              ELSE TrailAdvance(t)
    /\ UNCHANGED <<pos, progVars, auxVars, m_seen, last_analysis_signals, monVars, m_sym, m_position>>

\* modify_trailing_sl(ticket, new_sl, tp, symbol): an accepted modification
\* is logged before it returns True; a log that fails raises out of
\* cycle_once.
MainTrailModify(ok, logged) ==
    /\ m_pc = "trail_modify"
    /\ IF Accepted(m_cur.ticket, ok)
       THEN /\ pos' = [pos EXCEPT ![m_cur.ticket].sl = m_cur.new_sl]
            /\ IF logged
               THEN TrailAdvance(m_cur.ticket) /\ UNCHANGED <<m_sym, m_position>>
               ELSE MainAbortCycle
       ELSE /\ UNCHANGED <<pos, m_sym, m_position>>
            /\ TrailAdvance(m_cur.ticket)
    /\ UNCHANGED <<progVars, auxVars, m_seen, positions_at_breakeven, last_analysis_signals,
                   monVars>>

\* analyze_or_monitor_pair, position exists: the fresh analysis is stored and
\* checked for a reversal; an exception skips both.
MainReversal(resp) ==
    /\ m_pc = "reversal"
    /\ IF resp.kind = "error"
       THEN /\ MainNextPair
            /\ UNCHANGED last_analysis_signals
       ELSE LET fresh_signal == deepseek_analyze(resp)
            IN  /\ last_analysis_signals' =
                      [last_analysis_signals EXCEPT ![m_sym] = fresh_signal]
                /\ IF /\ direction_changed(m_position.type, fresh_signal.action)
                      /\ confident(fresh_signal.confidence)
                   THEN /\ m_pc' = "rev_close"
                        /\ m_cur' = [ticket |-> m_position.ticket, new_sl |-> 0]
                        /\ UNCHANGED <<m_sym, m_position, m_rest>>
                   ELSE MainNextPair
    /\ UNCHANGED <<pos, progVars, auxVars, m_seen, positions_at_breakeven, monVars>>

\* result = mt5.order_send(close_request); on success
\* stop_continuous_monitoring(symbol), then log_trade(...) inside the try: a
\* log that fails is printed and changes nothing.
MainReversalClose(ok) ==
    /\ m_pc = "rev_close"
    /\ IF Accepted(m_cur.ticket, ok)
       THEN /\ pos' = [pos EXCEPT ![m_cur.ticket] = ClosedPos]
            /\ stop_continuous_monitoring(m_sym)
       ELSE UNCHANGED <<pos, monVars>>
    /\ MainNextPair
    /\ UNCHANGED <<progVars, auxVars, m_seen, positions_at_breakeven, last_analysis_signals>>

\* The ticket the broker gives the next position; one position is open at a
\* time, an order sent while another is open (or when the run's tickets are
\* used up) is refused.
FreeTickets ==
    {t \in Tickets : pos[t].st = "none" /\ \A u \in Tickets : u < t => pos[u].st = "closed"}

\* analyze_or_monitor_pair, no position: news block and trading hours gate
\* the analysis; the signal is stored; a confident BUY/SELL with a complete
\* plan is sent to open_trade, and a filled order starts the monitor.
MainAnalyze(gate, resp, plan, ok) ==
    /\ m_pc = "analyze"
    /\ IF gate # "open" \/ resp.kind = "error"
       THEN UNCHANGED <<pos, last_analysis_signals, monVars>>
       ELSE LET signal == deepseek_analyze(resp)
            IN  /\ last_analysis_signals' =
                      [last_analysis_signals EXCEPT ![m_sym] = signal]
                /\ IF /\ confident(signal.confidence)
                      /\ signal.action \in {"BUY", "SELL"}
                      /\ plan
                      /\ ok
                      /\ FreeTickets # {}
                   THEN /\ \E t \in FreeTickets, sl \in InitialSL(signal.action) \ {0} :
                              OpenPosition(t, m_sym, signal.action, sl)
                        /\ start_continuous_monitoring(m_sym)
                   ELSE UNCHANGED <<pos, monVars>>
    /\ MainNextPair
    /\ UNCHANGED <<progVars, auxVars, m_seen, positions_at_breakeven>>

\* continuous_position_monitor(symbol), one pass of the loop up to the close
\* request of auto_refresh_open_trades: the stored signal of the symbol is
\* replayed against the symbol's position.
MonitorCheck(sym) ==
    /\ monitoring_threads[sym] = "alive"
    /\ mon[sym].pc = "loop"
    /\ IF DictGet(stop_monitoring, sym, FALSE)
       THEN /\ monitoring_threads' = [monitoring_threads EXCEPT ![sym] = "dead"]
            /\ UNCHANGED mon
       ELSE /\ PositionsOf(sym) # {}
            /\ LET t == MinOf(PositionsOf(sym))
                   signal == last_analysis_signals[sym]
               IN  /\ signal.action # "none"
                   /\ direction_changed(pos[t].type, signal.action)
                   /\ mon' = [mon EXCEPT ![sym] =
                                 [pc |-> "close", ticket |-> t,
                                  type |-> pos[t].type,
                                  action |-> signal.action,
                                  confidence |-> signal.confidence]]
            /\ UNCHANGED monitoring_threads
    /\ UNCHANGED <<pos, progVars, auxVars, positions_at_breakeven, last_analysis_signals,
                   stop_monitoring, mainVars>>

\* auto_refresh_open_trades: result = mt5.order_send(close_request); the
\* log_trade(...) after it raises, if it fails, into the monitor loop's except
\* clause and changes nothing.
MonitorClose(sym, ok) ==
    /\ monitoring_threads[sym] = "alive"
    /\ mon[sym].pc = "close"
    /\ IF Accepted(mon[sym].ticket, ok)
       THEN pos' = [pos EXCEPT ![mon[sym].ticket] = ClosedPos]
       ELSE UNCHANGED pos
    /\ mon' = [mon EXCEPT ![sym] = MonIdle]
    /\ UNCHANGED <<progVars, auxVars, positions_at_breakeven, last_analysis_signals,
                   monitoring_threads, stop_monitoring, mainVars>>

\* ------------------------------------------------------------- environment
EnhEnvPrice ==
    /\ \E t \in OpenTickets : \E p \in PricesOf(pos[t].type, EnhOffsets) :
          PriceMove(t, p, EnhPriceStep, EnhOffsets)
    /\ UNCHANGED <<progVars, enhVars, auxVars>>

EnhEnvFill ==
    /\ \E t \in Tickets : BrokerFill(t, EnhMaxOff)
    /\ UNCHANGED <<progVars, enhVars, auxVars>>

\* ------------------------------------------------------ thread supervision

\* bot_enhanced.py: start_continuous_monitoring and stop_continuous_monitoring
\* called in any order, as test_independent_monitoring.py and the main cycle
\* do.  caller holds the last call and whether it is still waiting in join.

\* No start or stop call is in progress.
NoCall == [op |-> "none", sym |-> "XAUUSD", pc |-> "idle"]

\* start_continuous_monitoring(symbol)
SupStart(sym) ==
    /\ caller.pc = "idle"
    /\ start_continuous_monitoring(sym)
    /\ caller' = [op |-> "start", sym |-> sym, pc |-> "idle"]
    /\ UNCHANGED <<pos, progVars, positions_at_breakeven, last_analysis_signals,
                   mainVars, prog_stop_monitoring, prog_threads, lotVars, entryVars, call>>

\* stop_continuous_monitoring(symbol): raise the symbol's flag, then
\* monitoring_threads[symbol].join(timeout=5)
SupStop(sym) ==
    /\ caller.pc = "idle"
    /\ stop_continuous_monitoring(sym)
    /\ caller' = [op |-> "stop", sym |-> sym,
                  pc |-> IF sym \in DOMAIN stop_monitoring THEN "join" ELSE "idle"]
    /\ UNCHANGED <<pos, progVars, positions_at_breakeven, last_analysis_signals,
                   mainVars, prog_stop_monitoring, prog_threads, lotVars, entryVars, call>>

\* stop_continuous_monitoring(): raise every flag, then join each thread that
\* is alive
SupStopAll ==
    /\ caller.pc = "idle"
    /\ stop_monitoring' = [sym \in DOMAIN stop_monitoring |-> TRUE]
    /\ caller' = [op |-> "stop_all", sym |-> "XAUUSD",
                  pc |-> IF \E sym \in Symbols : monitoring_threads[sym] = "alive"
                         THEN "join" ELSE "idle"]
    /\ UNCHANGED <<pos, progVars, positions_at_breakeven, last_analysis_signals,
                   monitoring_threads, mon, mainVars, prog_stop_monitoring,
                   prog_threads, lotVars, entryVars, call>>

\* thread.join(timeout=5): back when the thread has ended or when the five
\* seconds are over, whichever comes first
SupJoin(timeout) ==
    /\ caller.pc = "join"
    /\ LET joined == IF caller.op = "stop" THEN {caller.sym} ELSE Symbols
       IN  timeout \/ \A sym \in joined : monitoring_threads[sym] # "alive"
    /\ caller' = [caller EXCEPT !.pc = "idle"]
    /\ UNCHANGED <<pos, progVars, enhVars, prog_stop_monitoring, prog_threads, lotVars, entryVars, call>>

\* bot_progressive_sl.py: the two loops as threads under the global flag
\* stop_monitoring.  What a tick does to positions is SpecProg's matter; here
\* a tick ends normally or with an exception.  err is what the loop's except
\* clause caught in the thread's last tick; asked notes that a stop was
\* requested during the thread's life.
ProgThread(target) ==
    [target |-> target, st |-> "alive", err |-> "none", asked |-> FALSE]

\* start_monitoring_threads(): clear the flag, create and start both threads
ProgStart ==
    /\ Len(prog_threads) < 2 * MaxStarts
    /\ prog_stop_monitoring' = FALSE
    /\ prog_threads' = prog_threads \o <<ProgThread("monitor_profit_positions"),
                                          ProgThread("monitor_signal_changes")>>
    /\ UNCHANGED <<pos, progVars, enhVars, caller, lotVars, entryVars, call>>

\* stop_monitoring_threads(): set the flag; each join gives up after 5 seconds
ProgStop ==
    /\ prog_stop_monitoring' = TRUE
    /\ prog_threads' = [i \in DOMAIN prog_threads |->
                           IF prog_threads[i].st = "alive"
                           THEN [prog_threads[i] EXCEPT !.asked = TRUE]
                           ELSE prog_threads[i]]
    /\ UNCHANGED <<pos, progVars, enhVars, caller, lotVars, entryVars, call>>

\* Variant of the loop body without the try: an exception ends the thread.
loop_tick_unguarded(thread, outcome) ==
    IF outcome = "error" THEN [thread EXCEPT !.st = "dead", !.err = outcome]
    ELSE [thread EXCEPT !.err = outcome]

\* try: <tick> except Exception as e: print_error(...); then time.sleep(...)
loop_tick(thread, outcome) == [thread EXCEPT !.err = outcome]

\* while not stop_monitoring: one test of the flag and, if it is clear, one
\* tick of monitor_profit_positions or monitor_signal_changes
ProgLoop(i, outcome) ==
    /\ i \in DOMAIN prog_threads
    /\ prog_threads[i].st = "alive"
    /\ prog_threads' = [prog_threads EXCEPT ![i] =
                           IF prog_stop_monitoring
                           THEN [@ EXCEPT !.st = "dead"]
                           ELSE loop_tick(@, outcome)]
    /\ UNCHANGED <<pos, progVars, enhVars, caller, prog_stop_monitoring, lotVars, entryVars, call>>

\* ---------------------------------------------------------------- lot sizing

\* RISK_MANAGEMENT_CONFIG['dynamic_lot_sizing'], money in dollars and lot
\* sizes in hundredths of a lot
STARTING_CAPITAL == 10000
CAPITAL_INCREMENT == 5000
BASE_LOT_SIZE == 100
LOT_INCREMENT == 50
MIN_LOT_SIZE == 100
LOT_SIZING_ENABLED == TRUE

\* round(x, 1) of a lot size given as the fraction num / CAPITAL_INCREMENT
\* hundredths of a lot: the tenth of a lot nearest to it.  A value half way
\* between two tenths (x.x5) is a binary float just above or just below the
\* decimal, and round follows the float: either neighbour can come out.
round_1(num) ==
    LET tenth == 10 * CAPITAL_INCREMENT
        low == num \div tenth
        rest == num % tenth
    IN  IF 2 * rest < tenth THEN {10 * low}
        ELSE IF 2 * rest > tenth THEN {10 * (low + 1)}
        ELSE {10 * low, 10 * (low + 1)}

\* Variant of calculate_lot_size without the floor at min_lot_size.
calculate_lot_size_unfloored(equity) ==
    round_1(BASE_LOT_SIZE * CAPITAL_INCREMENT
            + (equity - STARTING_CAPITAL) * LOT_INCREMENT)

\* calculate_lot_size(symbol, account_equity), the same in both programs: the
\* lot sizes round() can return, in hundredths of a lot.  The division by
\* capital_increment is carried in the denominator.
calculate_lot_size(equity) ==
    IF ~LOT_SIZING_ENABLED THEN {BASE_LOT_SIZE}
    ELSE LET capital_change == equity - STARTING_CAPITAL
             additional_lots == capital_change * LOT_INCREMENT
             final_lot_size == BASE_LOT_SIZE * CAPITAL_INCREMENT + additional_lots
             floored == IF MIN_LOT_SIZE * CAPITAL_INCREMENT > final_lot_size
                        THEN MIN_LOT_SIZE * CAPITAL_INCREMENT
                        ELSE final_lot_size
         IN  round_1(floored)

\* The account equities handed to calculate_lot_size: every EquityStep
\* dollars from -MaxDeficit (a negative equity) to MaxEquity.
Equities ==
    {k * EquityStep - MaxDeficit : k \in 0..((MaxEquity + MaxDeficit) \div EquityStep)}

\* open_trade: volume = calculate_lot_size(symbol, account.equity)
SizeLot(equity) ==
    /\ account_equity' = equity
    /\ volume' \in calculate_lot_size(equity)
    /\ UNCHANGED <<pos, progVars, enhVars, supVars, precalc_cache, fast, entryVars, call>>

\* ------------------------------------------------------------------ entries

\* How each program comes to send an order that opens a position.  The broker
\* fills what it is sent; book counts the open positions of each symbol.
\* Before its first cycle e_pc is "idle"; the program that runs first takes
\* the account: bot_enhanced.py ("cycle", then the pair in turn) or
\* bot_progressive_sl.py ("main").

NoPair == [sym |-> "none", listed |-> TRUE, branch |-> "none"]
NoFn == [fn |-> "none"]

\* Variant of the gates that tests the news block only.
entry_gate_news_only(sym) ==
    IF sym \in blocked_pairs THEN "blocked" ELSE "open"

\* analyze_or_monitor_pair, no position: if symbol in blocked_pairs: return
\* False; hours_allowed, _ = is_trading_hours_allowed(); if not hours_allowed:
\* return False
entry_gate(sym) ==
    IF sym \in blocked_pairs THEN "blocked"
    ELSE IF ~hours_allowed THEN "hours"
    ELSE "open"

\* cycle_once up to the first pair: without account info the cycle is given
\* up; blocked is what is_blocked_now answers for each pair.
EntryCycleStart(account, blocked) ==
    /\ e_pc \in {"idle", "cycle"}
    /\ IF account
       THEN blocked_pairs' = blocked /\ e_pc' = "XAUUSD"
       ELSE e_pc' = "cycle" /\ UNCHANGED blocked_pairs
    /\ UNCHANGED <<pos, progVars, enhVars, supVars, lotVars, book, hours_allowed,
                   e_last, call>>

\* analyze_or_monitor_pair(symbol).  listed: mt5.positions_get(symbol=symbol)
\* answered (it returns None on an error, which "if positions and
\* len(positions) > 0" takes for no position).  With a position: elevation,
\* trailing and the reversal check, which closes positions[0] on a confident
\* reversal.  Without: the gates, then the analysis; signal says that the
\* oracle's answer is a confident BUY or SELL with entry, sl and tp, ok that
\* the broker filled the order.
EntryPair(listed, reversal, signal, ok) ==
    /\ e_pc \in Symbols
    /\ LET symbol == e_pc
           positions == IF listed THEN book[symbol] ELSE 0
           branch == IF positions > 0 THEN "monitor"
                     ELSE IF entry_gate(symbol) # "open" THEN entry_gate(symbol)
                     ELSE IF signal /\ ok /\ book[symbol] < MaxBook THEN "open"
                     ELSE "analyze"
       IN  /\ book' = IF branch = "open"
                      THEN [book EXCEPT ![symbol] = @ + 1]
                      ELSE IF branch = "monitor" /\ reversal
                      THEN [book EXCEPT ![symbol] = @ - 1]
                      ELSE book
           /\ e_last' = [sym |-> symbol, listed |-> listed, branch |-> branch]
           /\ e_pc' = IF symbol = "XAUUSD" THEN "BTCUSD" ELSE "cycle"
    /\ UNCHANGED <<pos, progVars, enhVars, supVars, lotVars, blocked_pairs,
                   hours_allowed, call>>

\* bot_progressive_sl.py, one pass of the main loop: positions =
\* mt5.positions_get(); open_symbols = [p.symbol for p in positions] if
\* positions else []; every pair not in open_symbols is analysed, and opens
\* are the pairs whose signal led to a filled order.
ProgEntry(listed, opens) ==
    /\ e_pc \in {"idle", "main"}
    /\ LET open_symbols == IF listed THEN {sym \in Symbols : book[sym] > 0} ELSE {}
       IN  book' = [sym \in Symbols |->
                       IF sym \notin open_symbols /\ sym \in opens /\ book[sym] < MaxBook
                       THEN book[sym] + 1 ELSE book[sym]]
    /\ e_last' = [sym |-> "all", listed |-> listed, branch |-> "main"]
    /\ e_pc' = "main"
    /\ UNCHANGED <<pos, progVars, enhVars, supVars, lotVars, blocked_pairs,
                   hours_allowed, call>>

\* Outside the entry loop: a position is closed (its stop or target fills, or
\* a monitoring thread closes it), or the clock passes a boundary of the
\* trading hours.
EntryEnv ==
    /\ \/ /\ \E sym \in Symbols :
                 book[sym] > 0 /\ book' = [book EXCEPT ![sym] = @ - 1]
          /\ UNCHANGED hours_allowed
       \/ /\ hours_allowed' = ~hours_allowed
          /\ UNCHANGED book
    /\ UNCHANGED <<pos, progVars, enhVars, supVars, lotVars, blocked_pairs,
                   e_pc, e_last, call>>

\* ------------------------------------------------------------ trading hours

\* TRADING_HOURS_CONFIG['trading_windows']
TRADING_WINDOWS ==
    << [start_hour |-> 8, start_min |-> 0, end_hour |-> 12, end_min |-> 0,
        days |-> {"Monday", "Tuesday", "Wednesday", "Thursday", "Friday"}],
       [start_hour |-> 13, start_min |-> 0, end_hour |-> 3, end_min |-> 0,
        days |-> {"Monday", "Tuesday", "Wednesday", "Thursday", "Friday"}] >>

\* The days of the week (strftime('%A'))
Days == {"Monday", "Tuesday", "Wednesday", "Thursday", "Friday", "Saturday", "Sunday"}

\* The minutes of an hour tried: its first two, its middle and its last.
Minutes == {0, 1, 30, 59}

\* Variant that tests every window as a session within one day.
is_trading_hours_allowed_same_day(current_day, current_hour, current_minute) ==
    /\ current_day \notin {"Saturday", "Sunday"}
    /\ \E i \in DOMAIN TRADING_WINDOWS :
          LET w == TRADING_WINDOWS[i]
              current_minutes == current_hour * 60 + current_minute
          IN  /\ current_day \in w.days
              /\ w.start_hour * 60 + w.start_min <= current_minutes
              /\ current_minutes <= w.end_hour * 60 + w.end_min

\* is_trading_hours_allowed() at the CET time current_day, current_hour,
\* current_minute: the weekend block, then the first window that matches;
\* a window whose end hour is below its start hour spans midnight.
is_trading_hours_allowed(current_day, current_hour, current_minute) ==
    /\ current_day \notin {"Saturday", "Sunday"}
    /\ \E i \in DOMAIN TRADING_WINDOWS :
          LET w == TRADING_WINDOWS[i]
              current_minutes == current_hour * 60 + current_minute
              start_minutes == w.start_hour * 60 + w.start_min
              end_minutes == w.end_hour * 60 + w.end_min
          IN  /\ current_day \in w.days
              /\ IF w.end_hour < w.start_hour
                 THEN \/ current_hour >= w.start_hour
                      \/ current_hour < w.end_hour
                      \/ current_hour = w.end_hour /\ current_minute <= w.end_min
                 ELSE start_minutes <= current_minutes /\ current_minutes <= end_minutes

\* allowed, reason = is_trading_hours_allowed() with the clock at the given time
CheckHours(day, hour, minute) ==
    /\ call' = [fn |-> "is_trading_hours_allowed", day |-> day, hour |-> hour,
                minute |-> minute,
                allowed |-> is_trading_hours_allowed(day, hour, minute)]
    /\ UNCHANGED <<pos, progVars, enhVars, supVars, lotVars, entryVars>>

\* ------------------------------------------------------- SL and TP of orders

\* adjust_tp_sl_atr(symbol, entry, sl, tp, atr): prices and the ATR in cents
\* (hundredths of a price unit); atr is the ATR the function ends up with, 0
\* when it was not given and cannot be computed.  The side is read off the
\* signal's sl.
adjust_tp_sl_atr(symbol, entry, sl, atr) ==
    LET is_buy == sl < entry
        pip_value == IF symbol = "BTCUSD" THEN 100 ELSE 1
        sl_pips == IF symbol = "BTCUSD" THEN 40 ELSE 70
        tp_pips == IF symbol = "BTCUSD" THEN 130 ELSE 140
        sl_distance == Max(sl_pips * pip_value, atr)
        tp_distance == tp_pips * pip_value
    IN  IF is_buy
        THEN [sl |-> entry - sl_distance, tp |-> entry + tp_distance]
        ELSE [sl |-> entry + sl_distance, tp |-> entry - tp_distance]

\* open_trade_fast / open_trade: adjusted_sl, adjusted_tp =
\* adjust_tp_sl_atr(symbol, price, sl, tp, atr) for an order to buy or sell
\* at OrderEntry whose signal has its sl on the losing side; atr_pips is the
\* ATR in pips of the symbol.
AdjustOrder(symbol, action, atr_pips) ==
    /\ LET pip_value == IF symbol = "BTCUSD" THEN 100 ELSE 1
           sl == IF action = "BUY" THEN OrderEntry - 1 ELSE OrderEntry + 1
           adjusted == adjust_tp_sl_atr(symbol, OrderEntry, sl, atr_pips * pip_value)
       IN  call' = [fn |-> "adjust_tp_sl_atr", symbol |-> symbol, action |-> action,
                    atr |-> atr_pips * pip_value, sl |-> adjusted.sl, tp |-> adjusted.tp]
    /\ UNCHANGED <<pos, progVars, enhVars, supVars, lotVars, entryVars>>

\* ------------------------------------------------ ladder and trailing stops

\* The profits and ticks calculate_progressive_sl is applied to: profits in
\* steps of a quarter of PROFIT_THRESHOLD, ticks from two points on the
\* losing side of the entry to the displacement MaxLadderProfit is worth, and
\* 0 for a tick that is not available.
LadderProfits == {k * ProfitPerPoint : k \in 0..(MaxLadderProfit \div ProfitPerPoint)}
LadderTicks(type) ==
    {0} \cup {IF type = "BUY" THEN EntryPrice + d ELSE EntryPrice - d :
                 d \in -2..(MaxLadderProfit \div ProfitPerPoint)}

\* new_sl = calculate_progressive_sl(position, current_profit)
LadderCall(type, current_profit, tick) ==
    /\ call' = [fn |-> "calculate_progressive_sl", type |-> type,
                profit |-> current_profit, tick |-> tick,
                new_sl |-> calculate_progressive_sl(type, current_profit, tick)]
    /\ UNCHANGED <<pos, progVars, enhVars, supVars, lotVars, entryVars>>

\* manage_trailing_stops on XAUUSD with prices in thousandths of a price unit,
\* so that a pip (0.01) is GoldPip thousandths and candidates half a pip
\* apart can be told from each other.
GoldPip == 10

\* Variant of the trailing rule that only asks for a better stop, not for a
\* full step.
trail_new_sl_any_gain(type, current_price, current_sl, rounds_up) ==
    LET trail_distance_price == TRAIL_DISTANCE * GoldPip
        candidate == IF type = "BUY" THEN current_price - trail_distance_price
                     ELSE current_price + trail_distance_price
        gain == IF type = "BUY" THEN candidate - current_sl ELSE current_sl - candidate
    IN  IF gain > 0 THEN candidate ELSE 0

\* manage_trailing_stops: new_sl, 0 standing for None.  The code compares
\* binary floating-point numbers: a gain of exactly one step comes out just
\* above or just below step_size_price (2001.11 - 0.1 - 2001.00 is
\* 0.00999999999999), which rounds_up tells.
trail_new_sl(type, current_price, current_sl, rounds_up) ==
    LET trail_distance_price == TRAIL_DISTANCE * GoldPip
        step_size_price == STEP_SIZE * GoldPip
        candidate == IF type = "BUY" THEN current_price - trail_distance_price
                     ELSE current_price + trail_distance_price
        gain == IF type = "BUY" THEN candidate - current_sl ELSE current_sl - candidate
    IN  IF gain > 0 /\ (gain > step_size_price \/ (gain = step_size_price /\ rounds_up))
        THEN candidate ELSE 0

\* manage_trailing_stops: the loop body for an armed position with stop
\* TrailedSl whose tick puts the candidate half_pips half pips beyond it.
TrailCall(type, half_pips, rounds_up) ==
    /\ LET gap == half_pips * (GoldPip \div 2)
           candidate == IF type = "BUY" THEN TrailedSl + gap ELSE TrailedSl - gap
           current_price == IF type = "BUY" THEN candidate + TRAIL_DISTANCE * GoldPip
                            ELSE candidate - TRAIL_DISTANCE * GoldPip
       IN  call' = [fn |-> "manage_trailing_stops", type |-> type,
                    current_sl |-> TrailedSl, candidate |-> candidate,
                    new_sl |-> trail_new_sl(type, current_price, TrailedSl, rounds_up)]
    /\ UNCHANGED <<pos, progVars, enhVars, supVars, lotVars, entryVars>>

\* ----------------------------------------------------------- order execution

\* mt5.account_info() that failed, and an account with the given equity
NoAccount == [ok |-> FALSE, equity |-> 0]
Account(equity) == [ok |-> TRUE, equity |-> equity]

\* The equities of the accounts the cache and open_trade_fast are given:
\* every fortieth of Equities.
OrderEquities ==
    {k * 40 * EquityStep - MaxDeficit :
        k \in 0..((MaxEquity + MaxDeficit) \div (40 * EquityStep))}

\* No call of open_trade_fast yet.  result is "pending" inside the call,
\* "None" or "res" (the result of an order that was filled) once it has
\* returned; sent counts the order requests of the call, opened the
\* positions the gateway opened for it.  The request and the loop counter
\* are locals of the call and are gone when it has returned.
NoFast == [pc |-> "idle", symbol |-> "XAUUSD", action |-> "BUY", volume |-> 0,
           price |-> 0, sl |-> 0, tp |-> 0, attempt |-> 0, elapsed |-> 0,
           sent |-> 0, opened |-> 0, result |-> "None"]

\* update_precalc_cache(), when the cache is due or forced: with an account
\* the account and the lot size of every instrument are stored; without one
\* the cache stays as it is.
update_precalc_cache(account) ==
    /\ IF account.ok
       THEN \E lot_size \in calculate_lot_size(account.equity) :
               precalc_cache' = [account_info |-> account,
                                 position_sizes |-> [symbol \in Symbols |-> lot_size]]
       ELSE UNCHANGED precalc_cache
    /\ UNCHANGED <<pos, progVars, enhVars, supVars, account_equity, volume, fast,
                   entryVars, call>>

\* get_precalc_lot_size(symbol): the lot sizes the call can return; account
\* is what mt5.account_info() answers if it is asked.
get_precalc_lot_size(symbol, account) ==
    IF symbol \in DOMAIN precalc_cache.position_sizes
    THEN {precalc_cache.position_sizes[symbol]}
    ELSE LET known == IF precalc_cache.account_info.ok
                      THEN precalc_cache.account_info ELSE account
         IN  IF known.ok THEN calculate_lot_size(known.equity) ELSE {FALLBACK_LOT}

\* Variant of the retry test that allows one attempt more.
retry_once_more(attempt) == attempt <= RETRY_ATTEMPTS

\* for attempt in range(max_retries + 1): whether another attempt follows
\* attempt (if attempt < max_retries)
retry_left(attempt) == attempt < RETRY_ATTEMPTS

\* open_trade_fast returns; the except clause returns None as well.
FastReturn(result, sent, opened) ==
    fast' = [NoFast EXCEPT !.symbol = fast.symbol, !.action = fast.action,
                           !.result = result, !.sent = sent, !.opened = opened]

\* open_trade(symbol, action, sl, tp) with fast_mode on, that is
\* open_trade_fast up to its retry loop.  selected is whether ensure_symbol
\* passes (it raises otherwise), quoted whether get_precalc_spread_info has
\* a quote, account what mt5.account_info() answers, sl the stop the signal
\* proposed, atr the ATR in cents (0 when there are no rates), seconds the
\* time all this took.
open_trade_fast(symbol, action, sl, selected, quoted, account, atr, seconds) ==
    /\ fast.pc = "idle"
    /\ IF ~selected \/ ~quoted \/ action \notin Types
       THEN fast' = [NoFast EXCEPT !.symbol = symbol, !.action = action]
       ELSE \E lot \in get_precalc_lot_size(symbol, account) :
               LET price == OrderEntry
                   adjusted == adjust_tp_sl_atr(symbol, price, sl, atr)
               IN  fast' = [pc |-> "attempt", symbol |-> symbol, action |-> action,
                            volume |-> lot, price |-> price, sl |-> adjusted.sl,
                            tp |-> adjusted.tp, attempt |-> 0, elapsed |-> seconds,
                            sent |-> 0, opened |-> 0, result |-> "pending"]
    /\ UNCHANGED <<pos, progVars, enhVars, supVars, account_equity, volume,
                   precalc_cache, entryVars, call>>

\* open_trade_fast, one turn of "for attempt in range(max_retries + 1)": the
\* timeout test, then mt5.order_send(req).  outcome is the gateway's answer:
\* "done", "requote" (REQUOTE or PRICE_OFF), "rejected" (another retcode or
\* None) or "raise"; move is how far the fresh quote is from the old one
\* (0 also when symbol_info_tick fails); seconds the time the request and
\* the pause after it take.
FastAttempt(outcome, move, seconds) ==
    /\ fast.pc = "attempt"
    /\ IF fast.elapsed > EXECUTION_TIMEOUT
       THEN FastReturn("None", fast.sent, fast.opened)
       ELSE IF outcome = "done"
            THEN FastReturn("res", fast.sent + 1, fast.opened + 1)
            ELSE IF outcome = "raise" \/ ~retry_left(fast.attempt)
            THEN FastReturn("None", fast.sent + 1, fast.opened)
            ELSE fast' = [fast EXCEPT !.sent = @ + 1,
                                      !.elapsed = @ + seconds,
                                      !.attempt = @ + 1,
                                      !.price = IF outcome = "requote"
                                                THEN @ + move ELSE @]
    /\ UNCHANGED <<pos, progVars, enhVars, supVars, account_equity, volume,
                   precalc_cache, entryVars, call>>

\* ---------------------------------------------------------- specifications
Init ==
    /\ pos = [t \in Tickets |-> NoPos]
    /\ position_sl_levels = EmptyDict
    /\ p_pc = "sleep"
    /\ p_positions = {}
    /\ p_rest = EmptyDict
    /\ p_cur = NoCur
    /\ p_closed = {}
    /\ p_err = "none"
    /\ s_pc = "sleep"
    /\ s_rest = EmptyDict
    /\ s_cur = NoSignal
    /\ s_err = "none"
    /\ positions_at_breakeven = {}
    /\ last_analysis_signals = [sym \in Symbols |-> NoStoredSignal]
    /\ monitoring_threads = [sym \in Symbols |-> "none"]
    /\ stop_monitoring = EmptyDict
    /\ mon = [sym \in Symbols |-> MonIdle]
    /\ m_pc = "pair"
    /\ m_sym = "XAUUSD"
    /\ m_position = NoPosition
    /\ m_rest = EmptyDict
    /\ m_cur = NoRequest
    /\ m_seen = {}
    /\ caller = NoCall
    /\ prog_stop_monitoring = FALSE
    /\ prog_threads = << >>
    /\ account_equity = STARTING_CAPITAL
    /\ volume = 0
    /\ precalc_cache = [account_info |-> NoAccount, position_sizes |-> EmptyDict]
    /\ fast = NoFast
    /\ book = [sym \in Symbols |-> 0]
    /\ blocked_pairs = {}
    /\ hours_allowed = TRUE
    /\ e_pc = "idle"
    /\ e_last = NoPair
    /\ call = NoFn

ProfitLoop ==
    \/ ProfitSnapshot
    \/ \E tick \in PricesOf("BUY", Offsets) \cup PricesOf("SELL", Offsets) \cup {0} :
          ProfitVisit(tick)
    \/ \E ok \in BOOLEAN : ProfitModify(ok)
    \/ \E logged \in BOOLEAN : ProfitRecord(logged)
    \/ ProfitDelNegative
    \/ ProfitListClosed
    \/ ProfitDelClosed

SignalLoop ==
    \/ SignalSnapshot
    \/ \E resp \in OracleResponses : SignalFetch(resp)
    \/ SignalDecide
    \/ \E ok \in BOOLEAN : SignalClose(ok)
    \/ \E logged \in BOOLEAN : SignalCloseCheck(logged)
    \/ \E logged \in BOOLEAN : SignalCloseDel(logged)

NextProg ==
    \/ EnvOpen
    \/ EnvPrice
    \/ EnvFill
    \/ ProfitLoop
    \/ SignalLoop

SpecProg == Init /\ [][NextProg]_vars

\* bot_enhanced.py is checked under two environments, each with the same
\* actions.
\*
\* SpecRisk - a live market: prices move, stops and targets fill.  The oracle
\*   finds entries but is unavailable (error, unparsable answer) while a
\*   position is held, so no stored signal ever contradicts a position and the
\*   reversal closes of the main cycle and of the monitor threads are never
\*   enabled.
\* SpecEnh - a live oracle: every answer at every analysis, monitor threads
\*   replaying the stored signals.  The market rests at the entry price, so no
\*   profit threshold is reached, the risk managers run through their loops
\*   but never send a stop modification, and positions close by reversal only.

\* deepseek_analyze while a position is held, SpecRisk
QuietResponses == {r \in OracleResponses : r.kind # "ok"}

RiskCycle ==
    \/ MainPair
    \/ MainElevSnapshot
    \/ \E info \in BOOLEAN : MainElevVisit(info)
    \/ \E ok \in BOOLEAN, logged \in BOOLEAN : MainElevModify(ok, logged)
    \/ \E listed \in BOOLEAN : MainTrailSnapshot(listed)
    \/ \E tick \in PricesOf("BUY", EnhOffsets) \cup PricesOf("SELL", EnhOffsets) \cup {0} :
          MainTrailVisit(tick)
    \/ \E ok \in BOOLEAN, logged \in BOOLEAN : MainTrailModify(ok, logged)
    \/ \E resp \in QuietResponses : MainReversal(resp)
    \/ \E gate \in {"blocked", "hours", "open"}, resp \in OracleResponses,
          plan \in BOOLEAN, ok \in BOOLEAN : MainAnalyze(gate, resp, plan, ok)

NextRisk ==
    \/ EnhEnvPrice
    \/ EnhEnvFill
    \/ RiskCycle

SpecRisk == Init /\ [][NextRisk]_vars

\* SpecHeld - the live market of SpecRisk on an account that holds a position
\*   opened by other means (by hand, by another program), with or without a
\*   stop, while the gates keep the program from opening one itself:
\*   positions_get() lists every position of the account and the risk
\*   managers treat them all alike.
HeldOpen ==
    /\ \A t \in Tickets : pos[t].st = "none"
    /\ EnvOpen

NextHeld ==
    \/ HeldOpen
    \/ EnhEnvPrice
    \/ EnhEnvFill
    \/ MainPair
    \/ MainElevSnapshot
    \/ \E info \in BOOLEAN : MainElevVisit(info)
    \/ \E ok \in BOOLEAN, logged \in BOOLEAN : MainElevModify(ok, logged)
    \/ \E listed \in BOOLEAN : MainTrailSnapshot(listed)
    \/ \E tick \in PricesOf("BUY", EnhOffsets) \cup PricesOf("SELL", EnhOffsets) \cup {0} :
          MainTrailVisit(tick)
    \/ \E ok \in BOOLEAN, logged \in BOOLEAN : MainTrailModify(ok, logged)
    \/ \E resp \in QuietResponses : MainReversal(resp)
    \/ \E gate \in {"blocked", "hours"}, resp \in OracleResponses,
          plan \in BOOLEAN, ok \in BOOLEAN : MainAnalyze(gate, resp, plan, ok)

SpecHeld == Init /\ [][NextHeld]_vars

MainCycle ==
    \/ MainPair
    \/ MainElevSnapshot
    \/ \E info \in BOOLEAN : MainElevVisit(info)
    \/ \E listed \in BOOLEAN : MainTrailSnapshot(listed)
    \/ \E tick \in {EntryPrice, 0} : MainTrailVisit(tick)
    \/ \E resp \in OracleResponses : MainReversal(resp)
    \/ \E ok \in BOOLEAN : MainReversalClose(ok)
    \/ \E gate \in {"blocked", "hours", "open"}, resp \in OracleResponses,
          plan \in BOOLEAN, ok \in BOOLEAN : MainAnalyze(gate, resp, plan, ok)

MonitorThreads ==
    \/ \E sym \in Symbols : MonitorCheck(sym)
    \/ \E sym \in Symbols, ok \in BOOLEAN : MonitorClose(sym, ok)

NextEnh ==
    \/ MainCycle
    \/ MonitorThreads

SpecEnh == Init /\ [][NextEnh]_vars

\* Thread supervision of both programs, the start and stop calls in any
\* order: the interface of bot_enhanced.py with its monitor threads, and the
\* two loops of bot_progressive_sl.py
NextSup ==
    \/ \E sym \in Symbols : SupStart(sym)
    \/ \E sym \in Symbols : SupStop(sym)
    \/ SupStopAll
    \/ \E timeout \in BOOLEAN : SupJoin(timeout)
    \/ \E sym \in Symbols : MonitorCheck(sym)
    \/ ProgStart
    \/ ProgStop
    \/ \E i \in 1..(2 * MaxStarts), outcome \in {"none", "error"} : ProgLoop(i, outcome)

SpecSup == Init /\ [][NextSup]_vars

\* The scheduler runs every thread that is alive.
SpecSupFair ==
    /\ SpecSup
    /\ \A i \in 1..(2 * MaxStarts) :
          WF_vars(\E outcome \in {"none", "error"} : ProgLoop(i, outcome))
    /\ \A sym \in Symbols : WF_vars(MonitorCheck(sym))

\* Lot sizing: calculate_lot_size over the range of equities
NextLot == \E equity \in Equities : SizeLot(equity)

SpecLot == Init /\ [][NextLot]_vars

\* Entries of both programs against a broker that fills every order
NextEntry ==
    \/ \E account \in BOOLEAN, blocked \in SUBSET Symbols : EntryCycleStart(account, blocked)
    \/ \E listed \in BOOLEAN, reversal \in BOOLEAN, signal \in BOOLEAN, ok \in BOOLEAN :
          EntryPair(listed, reversal, signal, ok)
    \/ \E listed \in BOOLEAN, opens \in SUBSET Symbols : ProgEntry(listed, opens)
    \/ EntryEnv

SpecEntry == Init /\ [][NextEntry]_vars

\* The functions of the programs that are checked on their own, each applied
\* to a range of arguments
NextCalls ==
    \/ \E day \in Days, hour \in 0..23, minute \in Minutes : CheckHours(day, hour, minute)
    \/ \E symbol \in Symbols, action \in Types, k \in 0..MaxAtr :
          AdjustOrder(symbol, action, 10 * k)
    \/ \E type \in Types, current_profit \in LadderProfits :
          \E tick \in LadderTicks(type) : LadderCall(type, current_profit, tick)
    \/ \E type \in Types, half_pips \in -2..MaxTrailGap, rounds_up \in BOOLEAN :
          TrailCall(type, half_pips, rounds_up)

SpecCalls == Init /\ [][NextCalls]_vars

\* Order execution: the cache refreshed at the start of a cycle and the
\* orders of open_trade, for signals with their stop on either side of the
\* price
NextOrder ==
    \/ \E account \in {NoAccount} \cup {Account(e) : e \in OrderEquities} :
          update_precalc_cache(account)
    \/ \E symbol \in Symbols, action \in Types \cup {"NO_TRADE"},
          side \in {-1, 1}, selected \in BOOLEAN, quoted \in BOOLEAN,
          account \in {NoAccount} \cup {Account(e) : e \in OrderEquities},
          k \in {0, MaxAtr}, seconds \in {0, MaxSendSeconds} :
          open_trade_fast(symbol, action, OrderEntry + side * 100, selected, quoted,
                          account, 10 * k * (IF symbol = "BTCUSD" THEN 100 ELSE 1),
                          seconds)
    \/ \E outcome \in {"done", "requote", "rejected", "raise"},
          move \in {-RequoteMove, 0, RequoteMove}, seconds \in {0, MaxSendSeconds} :
          FastAttempt(outcome, move, seconds)

SpecOrder == Init /\ [][NextOrder]_vars

\* ------------------------------------------------- outstanding requests

\* The request each loop has sent to the gateway and not yet had answered.
\* modify_position_sl of the profit loop
ProfitRequests ==
    IF p_pc = "modify"
    THEN {sltp_request("profit", p_cur.ticket, p_cur.new_sl)} ELSE {}

\* close_position of the signal loop
SignalRequests ==
    IF s_pc = "close" THEN {close_request("signal", s_cur.ticket)} ELSE {}

\* modify_position_sl, modify_trailing_sl and the reversal close of the main cycle
MainRequests ==
    IF m_pc \in {"elev_modify", "trail_modify"}
    THEN {sltp_request("main", m_cur.ticket, m_cur.new_sl)}
    ELSE IF m_pc = "rev_close" THEN {close_request("main", m_cur.ticket)} ELSE {}

\* the close of auto_refresh_open_trades, one monitor thread per symbol
MonitorRequests ==
    {close_request(sym, mon[sym].ticket) :
        sym \in {x \in Symbols : monitoring_threads[x] = "alive" /\ mon[x].pc = "close"}}

Outstanding == ProfitRequests \cup SignalRequests \cup MainRequests \cup MonitorRequests

\* ------------------------------------------------------------------ claims

\* C1 (as stated): in the reversal-checking loops of bot_enhanced.py (the main
\* cycle and the per-symbol monitor threads) a close request is out for a
\* position only on a signal that is BUY or SELL, opposite to the position and
\* of confidence >= MIN_CONFIDENCE; a BUY position is not closed on SELL / 60.
C1_CloseOnlyOnConfidentReversal ==
    /\ m_pc = "rev_close" =>
          IsReversal(m_position.type, last_analysis_signals[m_sym].action,
                     last_analysis_signals[m_sym].confidence)
    /\ \A sym \in Symbols :
          (monitoring_threads[sym] = "alive" /\ mon[sym].pc = "close") =>
              IsReversal(mon[sym].type, mon[sym].action, mon[sym].confidence)

\* Strictly more favourable stop: higher for BUY, lower for SELL.
MoreFavorable(type, new_sl, old_sl) ==
    IF type = "BUY" THEN new_sl > old_sl ELSE new_sl < old_sl

\* C2: whenever the SL of an open trailing-armed ticket changes, the new SL is
\* strictly more favourable than the one before (higher for BUY, lower for
\* SELL): the stop of an armed ticket never regresses.
C2_ArmedStopNeverRegresses ==
    [][\A t \in Tickets :
          (/\ t \in positions_at_breakeven
           /\ IsOpen(t)
           /\ pos'[t].st = "open"
           /\ pos'[t].sl # pos[t].sl)
          => MoreFavorable(pos[t].type, pos'[t].sl, pos[t].sl)]_vars

\* C2 witness: an armed open ticket whose stop was trailed past breakeven.
C2_Witness ==
    \E t \in positions_at_breakeven :
        /\ IsOpen(t)
        /\ MoreFavorable(pos[t].type, pos[t].sl, breakeven_sl(pos[t].type))

\* C3 (as stated): every open ticket in positions_at_breakeven has its SL at
\* or beyond the entry price, SL >= entry for BUY and SL <= entry for SELL.
C3_MarkedTicketsHaveStopAtEntry ==
    \A t \in positions_at_breakeven :
        IsOpen(t) => IF pos[t].type = "BUY" THEN pos[t].sl >= EntryPrice
                     ELSE pos[t].sl <= EntryPrice

C6_UnlistedTicketsUntracked ==
    p_pc = "sleep" => \A t \in DOMAIN position_sl_levels : t \in p_positions

\* C7 (as stated): when a loop acts on a membership check or key listing of
\* position_sl_levels, the check still holds: the ticket it is about to
\* delete is still there.
C7_ChecksHoldWhenActedOn ==
    /\ p_pc = "del_neg" => p_cur.ticket \in DOMAIN position_sl_levels
    /\ p_pc = "cleanup" => \A t \in p_closed : t \in DOMAIN position_sl_levels
    /\ s_pc = "close_del" => s_cur.ticket \in DOMAIN position_sl_levels

C9_ElevationIdempotent ==
    [][\A t \in DOMAIN m_rest :
          (/\ m_pc = "elev_visit"
           /\ t = MinOf(DOMAIN m_rest)
           /\ m_rest[t].sl = breakeven_sl(m_rest[t].type)
           /\ (m_pc' # m_pc \/ m_rest' # m_rest))
          => /\ m_pc' # "elev_modify"
             /\ positions_at_breakeven' = positions_at_breakeven
             /\ pos' = pos]_vars

\* C9 witness: elevation is about to visit a marked ticket, still above the
\* threshold, whose SL it has already moved to breakeven.
C9_Witness ==
    /\ m_pc = "elev_visit"
    /\ \E t \in DOMAIN m_rest :
          /\ t = MinOf(DOMAIN m_rest)
          /\ t \in positions_at_breakeven
          /\ m_rest[t].profit >= SL_BREAKEVEN_THRESHOLD
          /\ m_rest[t].sl = breakeven_sl(m_rest[t].type)

\* The signal in hand does not call for a close.
NoActionableSignal ==
    \/ s_cur.oracle # "ok"
    \/ s_cur.action = "NO_TRADE"
    \/ s_cur.confidence < MIN_CONFIDENCE

\* C10: a failed or unparsable oracle answer is held as NO_TRADE with
\* confidence 0; on a NO_TRADE, low-confidence or unavailable signal the
\* signal loop sends no close and leaves the position as it is; and the
\* profit loop can always take its next step.
C10_UnavailableSignalLeavesPosition ==
    [][/\ (s_pc = "decide" /\ s_cur.oracle # "ok")
          => (s_cur.action = "NO_TRADE" /\ s_cur.confidence = 0)
       /\ (s_pc = "decide" /\ NoActionableSignal)
          => (s_pc' # "close" /\ (s_pc' # "decide" => pos' = pos))
       /\ ENABLED ProfitLoop]_vars

\* C10 witness: the signal loop holds the answer of a failed oracle call for
\* an open position.
C10_Witness ==
    /\ s_pc = "decide"
    /\ s_cur.oracle \in {"error", "malformed"}
    /\ IsOpen(s_cur.ticket)

\* C11: a step of the signal loop (the reversal check) leaves every position
\* as it is, stop loss included, except for closing the position it holds a
\* reversal for; and the only request it ever has out is a close.
C11_ReversalCheckOnlyCloses ==
    [][/\ (signalVars' # signalVars) =>
             \A t \in Tickets :
                 \/ pos'[t] = pos[t]
                 \/ /\ s_pc = "close"
                    /\ s_cur.ticket = t
                    /\ pos'[t] = ClosedPos
       /\ \A r \in SignalRequests : r.action = "TRADE_ACTION_DEAL"]_vars

\* C11 witness: the signal loop holds a confident signal that agrees with an
\* open position whose stop loss is not at the entry price.
C11_Witness ==
    /\ s_pc = "decide"
    /\ IsOpen(s_cur.ticket)
    /\ s_cur.action = s_cur.type
    /\ s_cur.confidence >= MIN_CONFIDENCE
    /\ pos[s_cur.ticket].sl # EntryPrice

\* C12 (as stated): every step of bot_enhanced.py in which a loop comes to a
\* close decision is a step that obtains its signal from the oracle (the
\* fresh analysis of analyze_or_monitor_pair); no decision is taken on a
\* signal stored by an earlier evaluation.
C12_DecisionsUseFreshSignal ==
    [][(\/ m_pc # "rev_close" /\ m_pc' = "rev_close"
        \/ \E sym \in Symbols : mon[sym].pc # "close" /\ mon'[sym].pc = "close")
       => \E resp \in OracleResponses : MainReversal(resp)]_vars

\* C13 (as stated): at most one thread per loop (monitor_profit_positions,
\* monitor_signal_changes) is alive, whatever start and stop calls were made.
C13_OneLoopPerKind ==
    \A i \in DOMAIN prog_threads, j \in DOMAIN prog_threads :
        (/\ prog_threads[i].st = "alive"
         /\ prog_threads[j].st = "alive"
         /\ prog_threads[i].target = prog_threads[j].target)
        => i = j

\* C14 (as stated): a thread for which a stop was requested eventually ends.
C14_StopRequestEndsLoop ==
    \A i \in 1..(2 * MaxStarts) :
        [](/\ i \in DOMAIN prog_threads
           /\ prog_threads[i].asked
           => <>(i \in DOMAIN prog_threads /\ prog_threads[i].st = "dead"))

\* C15 (as stated): once stop_continuous_monitoring("XAUUSD") is back, the
\* XAUUSD thread is not alive and a BTCUSD thread that was not asked to stop
\* is; once stop_continuous_monitoring() is back, no thread is alive.
C15_StoppedThreadsNotAlive ==
    /\ (caller.pc = "idle" /\ caller.op = "stop" /\ caller.sym = "XAUUSD") =>
          /\ monitoring_threads["XAUUSD"] # "alive"
          /\ ("BTCUSD" \in DOMAIN stop_monitoring /\ ~stop_monitoring["BTCUSD"])
                => monitoring_threads["BTCUSD"] = "alive"
    /\ (caller.pc = "idle" /\ caller.op = "stop_all") =>
          \A sym \in Symbols : monitoring_threads[sym] # "alive"

\* C16: a thread ends only in a step that finds the stop flag set; a tick
\* that ended with an exception leaves the thread alive.
C16_OnlyStopFlagEndsLoop ==
    [][\A i \in DOMAIN prog_threads :
          (prog_threads[i].st = "alive" /\ prog_threads'[i].st = "dead")
          => prog_stop_monitoring]_vars

\* C16 witness: a thread is alive after a tick that ended with an exception,
\* and no stop is requested.
C16_Witness ==
    \E i \in DOMAIN prog_threads :
        /\ prog_threads[i].st = "alive"
        /\ prog_threads[i].err = "error"
        /\ ~prog_stop_monitoring

\* C17 (as stated): an error while one symbol is handled does not keep the
\* other symbol from being handled in the same cycle: the main loop starts a
\* cycle over (at XAUUSD) only after it has handled BTCUSD.
C17_ErrorStaysLocal ==
    [][(mainVars' # mainVars /\ m_pc' = "pair" /\ m_sym' = "XAUUSD")
       => m_sym = "BTCUSD"]_vars

\* C18 (as stated): the risk-state update after an accepted breakeven
\* modification does not depend on the audit log: whenever the elevation
\* step moves a stop loss, the ticket is in positions_at_breakeven afterwards.
C18_LogFailureChangesNothing ==
    [][(/\ m_pc = "elev_modify"
        /\ m_pc' # "elev_modify"
        /\ pos[m_cur.ticket].sl # m_cur.new_sl
        /\ pos'[m_cur.ticket].sl = m_cur.new_sl)
       => m_cur.ticket \in positions_at_breakeven']_vars

\* C19: the lot size is max(min_lot_size, base_lot_size + ((equity -
\* starting_capital) / capital_increment) * lot_increment) rounded to one
\* decimal: a whole number of tenths of a lot at most half a tenth away from
\* that value; an equity of 15000 gives 1.5 lots; and the lot size is never
\* below min_lot_size.
C19_LotSizeFormula ==
    volume # 0 =>
        LET exact == BASE_LOT_SIZE * CAPITAL_INCREMENT
                     + (account_equity - STARTING_CAPITAL) * LOT_INCREMENT
            least == MIN_LOT_SIZE * CAPITAL_INCREMENT
            target == IF exact >= least THEN exact ELSE least
            diff == volume * CAPITAL_INCREMENT - target
        IN  /\ volume % 10 = 0
            /\ 2 * diff <= 10 * CAPITAL_INCREMENT
            /\ 2 * diff >= -(10 * CAPITAL_INCREMENT)
            /\ account_equity = 15000 => volume = 150
            /\ volume >= MIN_LOT_SIZE

\* C19 witness: the lot size for an equity of 15000 is 1.5 lots.
C19_Witness ==
    /\ account_equity = 15000
    /\ volume = 150

\* C20 (as stated): a call with a negative equity returns no order volume.
C20_NegativeEquityFails ==
    account_equity < 0 => ~(volume > 0)

\* C21 (as stated): at every reachable state each symbol has at most one open
\* position, and there are at most two (max_concurrent_trades) in total.
C21_OnePositionPerSymbol ==
    /\ \A sym \in Symbols : book[sym] <= 1
    /\ book["XAUUSD"] + book["BTCUSD"] <= 2

\* C22: a step of analyze_or_monitor_pair opens a position only for a symbol
\* that is not news-blocked in this cycle and while the trading hours are
\* allowed; and for a symbol whose position positions_get lists it takes the
\* monitoring branch (elevation, trailing, reversal check) whatever the gates.
C22_GatesStopEntriesOnly ==
    [][(e_pc \in Symbols) =>
          ((book'[e_pc] > book[e_pc] => (e_pc \notin blocked_pairs /\ hours_allowed))
           /\ ((e_pc' # e_pc /\ e_last'.listed /\ book[e_pc] > 0)
                  => e_last'.branch = "monitor"))]_vars

\* C22 witness: the position of a news-blocked symbol has just been through
\* the monitoring branch outside the trading hours.
C22_Witness ==
    /\ e_last.branch = "monitor"
    /\ e_last.sym \in blocked_pairs
    /\ ~hours_allowed
    /\ e_pc # "cycle"

\* C23: is_trading_hours_allowed allows exactly the times of Monday to Friday
\* from 08:00 to 12:00, from 13:00 on and up to 03:00; so Monday 09:00, 14:00
\* and 02:00 are allowed, Monday 12:30 and 04:00 are blocked, and Saturday and
\* Sunday are blocked at any time.
C23_TradingHours ==
    call.fn = "is_trading_hours_allowed" =>
        LET t == call.hour * 60 + call.minute
            weekday == call.day \notin {"Saturday", "Sunday"}
            inside == \/ 8 * 60 <= t /\ t <= 12 * 60
                      \/ t >= 13 * 60
                      \/ t <= 3 * 60
        IN  /\ call.allowed <=> (weekday /\ inside)
            /\ (call.day = "Monday" /\ t \in {9 * 60, 14 * 60, 2 * 60}) => call.allowed
            /\ (call.day = "Monday" /\ t \in {12 * 60 + 30, 4 * 60}) => ~call.allowed

\* C23 witness: Monday 02:00, in the night session, was found allowed.
C23_Witness ==
    /\ call.fn = "is_trading_hours_allowed"
    /\ call.day = "Monday" /\ call.hour = 2 /\ call.minute = 0
    /\ call.allowed

\* C24 (as stated): the SL of an order is at distance max(min_sl_pips * pip,
\* ATR) from the entry on the losing side and its TP at distance
\* max(min_tp_pips * pip, 1.3 * ATR) on the winning side, with minimum SL/TP
\* of 40/65 pips (pip = 1.0) for BTCUSD and 70/140 pips (pip = 0.01) for XAUUSD.
C24_AtrAdjustedStops ==
    call.fn = "adjust_tp_sl_atr" =>
        LET btc == call.symbol = "BTCUSD"
            pip == IF btc THEN 100 ELSE 1
            min_sl == (IF btc THEN 40 ELSE 70) * pip
            min_tp == (IF btc THEN 65 ELSE 140) * pip
            sl_dist == IF min_sl >= call.atr THEN min_sl ELSE call.atr
            tp_dist10 == IF 10 * min_tp >= 13 * call.atr THEN 10 * min_tp ELSE 13 * call.atr
        IN  IF call.action = "BUY"
            THEN /\ call.sl = OrderEntry - sl_dist
                 /\ 10 * call.tp = 10 * OrderEntry + tp_dist10
            ELSE /\ call.sl = OrderEntry + sl_dist
                 /\ 10 * call.tp = 10 * OrderEntry - tp_dist10

\* C25 (as stated): manage_trailing_stops sends a trailing stop modification
\* for a position only if a positions_get of the main cycle has listed that
\* position with a profit of activation_profit or more; a position whose
\* listed profit never reached it is never trailed.
C25_TrailedOnlyAfterActivation ==
    [][(m_pc = "trail_visit" /\ m_pc' = "trail_modify") => m_cur'.ticket \in m_seen']_vars

\* C26 (as stated): the stop the profit loop requests at a milestone, computed
\* from a tick that agrees with the listed profit, protects the entry at
\* milestone 20, locks a profit of 10 at 40, of 30 at 60 and of 50 at 80.
C26_LadderLocksAdvertisedProfit ==
    [][(p_pc = "visit" /\ p_pc' = "modify") =>
          (LET t == p_cur'.ticket
               level == p_cur'.level
               locked == IF level = PROFIT_THRESHOLD THEN 0
                         ELSE IF level = 2 * PROFIT_THRESHOLD THEN 10
                         ELSE IF level = 3 * PROFIT_THRESHOLD THEN 30
                         ELSE 50
           IN  (/\ IsOpen(t)
                /\ Profit(pos[t].type, pos[t].price) = p_rest[t].profit
                /\ level <= 4 * PROFIT_THRESHOLD)
                  => Profit(p_rest[t].type, p_cur'.new_sl) = locked)]_vars

\* C27 (as stated): with level = floor(profit / threshold) * threshold and a
\* tick that is available, calculate_progressive_sl returns no SL when
\* level < threshold, the entry price when level = threshold, and for
\* level > threshold no SL when the price displacement is zero and otherwise
\* the entry plus (BUY) or minus (SELL) pointsToLock = lockedProfit *
\* |currentPrice - entry| / profit with lockedProfit = (level - threshold) / 2,
\* to the precision of the point grid.
C27_LadderStopFormula ==
    (call.fn = "calculate_progressive_sl" /\ call.tick # 0) =>
        LET level == (call.profit \div PROFIT_THRESHOLD) * PROFIT_THRESHOLD
            displacement == Abs(call.tick - EntryPrice)
            points == IF call.type = "BUY" THEN call.new_sl - EntryPrice
                      ELSE EntryPrice - call.new_sl
        IN  IF level < PROFIT_THRESHOLD THEN call.new_sl = 0
            ELSE IF level = PROFIT_THRESHOLD THEN call.new_sl = EntryPrice
            ELSE IF displacement = 0 THEN call.new_sl = 0
            ELSE /\ 2 * points * call.profit <= (level - PROFIT_THRESHOLD) * displacement
                 /\ (level - PROFIT_THRESHOLD) * displacement < 2 * (points + 1) * call.profit

\* C28: the profit loop hands a ladder stop to the gateway only if the stop is
\* strictly more favourable than the stop the position was listed with
\* (higher for a BUY, lower for a SELL) or the position has no stop; a visit
\* that discards its candidate moves on to the next position without a
\* gateway call (no position changes) and without an error.
C28_OnlyBetterLadderStopSent ==
    [][(p_pc = "visit") =>
          (/\ (p_pc' = "modify") =>
                  (LET position == p_rest[p_cur'.ticket]
                   IN  \/ position.sl = 0
                       \/ position.type = "BUY" /\ p_cur'.new_sl > position.sl
                       \/ position.type = "SELL" /\ p_cur'.new_sl < position.sl)
           /\ (p_rest' # p_rest) => (pos' = pos /\ p_err' = p_err /\ p_pc' = "visit"))]_vars

\* C28 witness: a stop that betters the stop the position already has is about
\* to be sent.
C28_Witness ==
    /\ p_pc = "modify"
    /\ p_cur.ticket \in DOMAIN p_rest
    /\ p_rest[p_cur.ticket].sl # 0
    /\ p_rest[p_cur.ticket].type = "SELL"
    /\ p_cur.new_sl < p_rest[p_cur.ticket].sl

\* C29: for an armed position the trailing candidate is sent as the new stop
\* only if it is more favourable than the current stop by at least one step;
\* for a BUY with its stop at 2001.00 and a step of 0.01 the candidate
\* 2001.005 causes no modification and the candidate 2001.02 causes one.
C29_TrailingHysteresis ==
    call.fn = "manage_trailing_stops" =>
        LET gain == IF call.type = "BUY" THEN call.candidate - call.current_sl
                    ELSE call.current_sl - call.candidate
        IN  /\ call.new_sl # 0 => (call.new_sl = call.candidate /\ gain >= STEP_SIZE * GoldPip)
            /\ (call.type = "BUY" /\ call.current_sl = 2001000 /\ call.candidate = 2001005)
                   => call.new_sl = 0
            /\ (call.type = "BUY" /\ call.current_sl = 2001000 /\ call.candidate = 2001020)
                   => call.new_sl = 2001020

\* C29 witness: the candidate 2001.02 has replaced the stop 2001.00 of a BUY.
C29_Witness ==
    /\ call.fn = "manage_trailing_stops"
    /\ call.type = "BUY"
    /\ call.current_sl = 2001000
    /\ call.candidate = 2001020
    /\ call.new_sl = 2001020

\* C30: manage_position_sl_elevation requests a stop modification for a
\* position it visits only when the listed profit is at the breakeven
\* threshold or above and the listed stop is unset or on the losing side of
\* the entry, and with the symbol's information at hand it does request one
\* then; the stop requested is the entry plus the buffer for a BUY and the
\* entry minus the buffer for a SELL (entry 100, buffer 2, no stop: 102); and
\* it adds the ticket to positions_at_breakeven only when the modification
\* was accepted.
C30_ElevationAtBreakeven ==
    [][/\ (m_pc = "elev_visit") =>
             (LET t == MinOf(DOMAIN m_rest)
                  position == m_rest[t]
                  due == /\ position.profit >= SL_BREAKEVEN_THRESHOLD
                         /\ \/ position.sl = 0
                            \/ position.type = "BUY" /\ position.sl < EntryPrice
                            \/ position.type = "SELL" /\ position.sl > EntryPrice
              IN  /\ (m_pc' = "elev_modify") =>
                         (/\ due
                          /\ m_cur'.ticket = t
                          /\ m_cur'.new_sl = IF position.type = "BUY"
                                             THEN EntryPrice + BUFFER_PIPS
                                             ELSE EntryPrice - BUFFER_PIPS)
                  /\ due => ENABLED (MainElevVisit(TRUE) /\ m_pc' = "elev_modify"))
       /\ (m_pc = "elev_modify" /\ positions_at_breakeven' # positions_at_breakeven) =>
             (/\ positions_at_breakeven' = positions_at_breakeven \cup {m_cur.ticket}
              /\ IsOpen(m_cur.ticket)
              /\ pos'[m_cur.ticket].sl = m_cur.new_sl)]_vars

\* C30 witness: a BUY that had no stop is having its stop put at 102, the
\* entry plus the buffer.
C30_Witness ==
    /\ m_pc = "elev_modify"
    /\ m_cur.ticket \in DOMAIN m_rest
    /\ m_rest[m_cur.ticket].type = "BUY"
    /\ m_rest[m_cur.ticket].sl = 0
    /\ m_cur.new_sl = 102

\* C31 (as stated): once a ticket is trailing-armed (in positions_at_breakeven)
\* the breakeven elevation sends no stop modification for it.
C31_ElevationLeavesArmedAlone ==
    [][(m_pc = "elev_visit" /\ m_pc' = "elev_modify")
          => m_cur'.ticket \notin positions_at_breakeven]_vars

\* C32 (as stated): a ticket marked breakeven-reached or trailing-armed (in
\* positions_at_breakeven) stays marked for as long as its position is open.
C32_MarkedUntilClosed ==
    [][\A t \in positions_at_breakeven :
          pos'[t].st = "open" => t \in positions_at_breakeven']_vars

C34_StartAfterStopMonitors ==
    [][(/\ caller.pc = "idle"
        /\ caller.op \in {"stop", "stop_all"}
        /\ caller'.op = "start"
        /\ caller.op = "stop" => caller.sym = caller'.sym)
          => (/\ monitoring_threads'[caller'.sym] = "alive"
              /\ ~DictGet(stop_monitoring', caller'.sym, FALSE))]_vars

\* C35 (as stated): the main cycle and a symbol's monitor thread never both
\* send a close request for the same ticket: a close request goes out only
\* for a ticket no earlier close request has closed.  Here a ticket is closed
\* only by an accepted close request of one of the two.
C35_OneCloseRequestPerTicket ==
    [][/\ (m_pc = "rev_close" /\ m_pc' # "rev_close") => IsOpen(m_cur.ticket)
       /\ \A sym \in Symbols :
             (mon[sym].pc = "close" /\ mon'[sym].pc # "close")
                => IsOpen(mon[sym].ticket)]_vars

\* C36: a call of open_trade_fast sends at most retry_attempts + 1 order
\* requests and opens at most one position; it sends a request only while no
\* request of the call has been filled and the execution timeout has not
\* elapsed at the attempt's test; and it returns (never raises): the result
\* of the filled order, or None when no attempt was filled.
C36_BoundedAttempts ==
    [][/\ fast'.sent <= RETRY_ATTEMPTS + 1
       /\ fast'.opened <= 1
       /\ (fast.pc = "attempt" /\ fast'.sent > fast.sent)
             => (fast.opened = 0 /\ fast.elapsed <= EXECUTION_TIMEOUT)
       /\ (fast.pc = "attempt" /\ fast'.pc = "idle")
             => (/\ fast'.result \in {"None", "res"}
                 /\ (fast'.result = "res") <=> (fast'.opened = 1))]_vars

\* all retry_attempts + 1 requests of a call were sent and none was filled
C36_Witness ==
    /\ fast.pc = "idle"
    /\ fast.sent = RETRY_ATTEMPTS + 1
    /\ fast.opened = 0
    /\ fast.result = "None"

\* C37 (as stated): every order request open_trade_fast sends has a volume of
\* at least min_lot_size, whatever the pre-calculation cache holds and
\* whatever mt5.account_info() answers.
C37_VolumeAtLeastMinLot ==
    [][(fast.pc = "attempt" /\ fast'.sent = fast.sent + 1)
          => fast.volume >= MIN_LOT_SIZE]_vars

\* C38 (as stated): every order request sent by open_trade / open_trade_fast
\* has SL < entry < TP when it buys and TP < entry < SL when it sells,
\* whatever stop the signal proposed.
C38_StopsOnTheRightSides ==
    [][(fast.pc = "attempt" /\ fast'.sent = fast.sent + 1)
          => IF fast.action = "BUY"
             THEN fast.sl < fast.price /\ fast.price < fast.tp
             ELSE fast.tp < fast.price /\ fast.price < fast.sl]_vars

====
